---------------------------- MODULE Spec2Model ----------------------------
(***************************************************************************)
(* rmc-go: the reMarkable v6 reader (ReadSceneTree over the tagged block   *)
(* reader and its bounded sub-reader), the scene decoder, the text         *)
(* reconstructor and the SVG emitter.                                      *)
(*                                                                         *)
(* Several specifications share this module:                                 *)
(*   Spec       ReadSceneTree at the level of byte positions               *)
(*   SpecScene  the block handlers building the scene tree, and drawGroup  *)
(*              and getBoundingBox over the tree                           *)
(*   SpecText   readRootTextBlock, then BuildTextDocument, buildAnchorPos  *)
(*              and drawText over the root text                            *)
(*   SpecStroke drawStroke and the pen over one line                       *)
(*   SpecContent OrderFilesByContent                                       *)
(*   SpecBytes  readSceneGroupItemBlock and readRootTextBlock over the     *)
(*              bytes of a payload                                         *)
(***************************************************************************)
EXTENDS Integers, Sequences, FiniteSets, TLC

VARIABLES
    \* ---- Spec: ReadSceneTree over bytes
    input,          \* the file: header bytes, blocks, stray bytes after the last block
    pc,             \* position of ReadSceneTree: header, readBlock, process, endBlock, done
    pos,            \* bytes the base reader has delivered so far
    currentBlock,   \* TaggedBlockReader.currentBlock (Nil when outside a block)
    remaining,      \* LimitedBufReader.remaining of the active block
    buffered,       \* bytes read ahead by the per-block bufio.Reader, not yet consumed
    stats,          \* history of the active block: bytes consumed, peeks, typed reads
    processed,      \* history: indexes of the blocks handed to processBlock, in order
    failed,         \* history: indexes of the blocks whose processBlock returned an error
    ended,          \* history: the block EndBlock has just ended, the position it left, its stats
    nReadBlock,     \* history: number of calls of ReadBlock
    result,         \* what ReadSceneTree returned: none, tree, error
    \* ---- SpecScene: ReadSceneTree over decoded blocks, then ExportToSVG
    scene,          \* the file: its blocks, decoded
    cursor,         \* number of blocks ReadSceneTree has read
    spc,            \* position: idle, parse, parsed, failed, exported
    tree,           \* the SceneTree under construction
    svg,            \* what ExportToSVG wrote: bounding box and the elements of the body
    \* ---- SpecText: a RootText block, and ExportToSVG's use of its text
    tblock,         \* the RootText block, decoded
    text,           \* the parser.Text
    tpc,            \* position: idle, block, start, anchors, drawn
    anchorPos,      \* the map buildAnchorPos returned
    doc,            \* the TextDocument BuildTextDocument returned to drawText
    tsvg,           \* what drawText wrote
    \* ---- SpecStroke: drawStroke on one line
    stroke,         \* the parser.Line
    lpc,            \* position: idle, start, drawn
    lsvg,           \* what drawStroke wrote
    \* ---- SpecContent: OrderFilesByContent
    inFiles,        \* the input list of .rm files
    contentFile,    \* what ReadContentFile returns for the .content file
    cpc,            \* position: idle, start, ordered
    ordered,        \* what OrderFilesByContent returned
    \* ---- SpecBytes: a handler on the bytes of one block payload
    bsrc,           \* the fields the payload was written from
    payload,        \* the bytes of the payload
    bpc,            \* position: idle, start, read
    fields,         \* what the handler read from the payload
    \* ---- SpecSkip: LimitedBufReader.Skip
    limited,        \* the LimitedBufReader: its package, remaining, and what its reader holds
    xpc,            \* position: idle, start, skipped
    skipped         \* what Skip did: remaining, bytes read, error, largest request, allocation

rvars == <<input, pc, pos, currentBlock, remaining, buffered, stats, processed,
           failed, ended, nReadBlock, result>>
svars == <<scene, cursor, spc, tree, svg>>
tvars == <<tblock, text, tpc, anchorPos, doc, tsvg>>

kvars == <<stroke, lpc, lsvg>>

cvars == <<inFiles, contentFile, cpc, ordered>>

bvars == <<bsrc, payload, bpc, fields>>

lvars == <<limited, xpc, skipped>>

vars == <<rvars, svars, tvars, kvars, cvars, bvars, lvars>>

Min(a, b) == IF a < b THEN a ELSE b
Max(a, b) == IF a > b THEN a ELSE b

(***************************************************************************)
(* Bounds of the model                                                     *)
(***************************************************************************)
MaxBlocks   == 2     \* blocks per file
MaxBlockLen == 11    \* largest declared blockLength
MaxOps      == 3     \* typed reads and peeks one handler makes
MaxReadLen  == 9     \* largest single typed read (ReadFloat64 with its tag)
ReadLens    == {1, 4, MaxReadLen}

(***************************************************************************)
(* Program constants                                                       *)
(***************************************************************************)
HeaderV6 == <<114, 101, 77, 97, 114, 107, 97, 98, 108, 101, 32, 46, 108, 105,
              110, 101, 115, 32, 102, 105, 108, 101, 44, 32, 118, 101, 114,
              115, 105, 111, 110, 61, 54, 32, 32, 32, 32, 32, 32, 32, 32, 32, 32>>
BlockHeaderLen == 8       \* u32 blockLength, u8 unknown, minVersion, currentVersion, blockType
PeekLen        == 10      \* HasSubblock peeks 10 bytes
ReaderBufSize  == 4096    \* bufio.NewReaderSize(limitedReader, 4096)
chunkSize      == 8192    \* Skip's scratch buffer

BlockTypeSceneTree      == 1
BlockTypeTreeNode       == 2
BlockTypeSceneGroupItem == 4
BlockTypeSceneLineItem  == 5
BlockTypeRootText       == 7
KnownBlockTypes == {BlockTypeSceneTree, BlockTypeTreeNode, BlockTypeSceneGroupItem,
                    BlockTypeSceneLineItem, BlockTypeRootText}

(***************************************************************************)
(* The input file.  A block is its declared blockLength, its type and the  *)
(* number of payload bytes the file really holds (present); only the last  *)
(* block can be cut short by the end of the file.  tail is the number of   *)
(* bytes (fewer than a block header) that follow the last whole block.     *)
(***************************************************************************)
BlockTypes  == {BlockTypeSceneTree, 255}
PayloadLens == {0, 2, MaxBlockLen}
Tails       == {0, 1, 3, 4, BlockHeaderLen - 1}

WholeBlocks == [blockType : BlockTypes, blockLength : PayloadLens, present : PayloadLens]
CutBlocks   == {b \in [blockType : BlockTypes, blockLength : PayloadLens \ {0},
                       present : {0, 1, MaxBlockLen - 1}] : b.present < b.blockLength}

RECURSIVE SeqsUpTo(_, _)
SeqsUpTo(S, n) ==
    IF n = 0 THEN {<<>>}
    ELSE LET shorter == SeqsUpTo(S, n - 1)
         IN  shorter \cup {Append(s, x) : s \in {t \in shorter : Len(t) = n - 1}, x \in S}

WholeSeqs(n) == {s \in SeqsUpTo(WholeBlocks, n) :
                    \A i \in 1..Len(s) : s[i].present = s[i].blockLength}

\* The header of a file is written [len, wrong]: the first len bytes of the v6
\* header, with byte number wrong (if any) replaced by 0.
GoodHeader   == [len |-> Len(HeaderV6), wrong |-> 0]
BadHeaders   == {[len |-> Len(HeaderV6), wrong |-> k] : k \in 1..Len(HeaderV6)}
ShortHeaders == {[len |-> n, wrong |-> 0] : n \in 0..(Len(HeaderV6) - 1)}
HeaderBytes(h) == [i \in 1..h.len |-> IF i = h.wrong THEN 0 ELSE HeaderV6[i]]

Inputs ==
    \* a well-formed header, whole blocks, and 0..7 stray bytes
    {[header |-> GoodHeader, blocks |-> bs, tail |-> t] :
        bs \in WholeSeqs(MaxBlocks), t \in Tails}
    \* a well-formed header, whole blocks, and a last block cut short by the end of the file
    \cup {[header |-> GoodHeader, blocks |-> Append(bs, b), tail |-> 0] :
        bs \in WholeSeqs(MaxBlocks - 1), b \in CutBlocks}
    \* a header with one wrong byte, followed by blocks
    \cup {[header |-> h, blocks |-> bs, tail |-> 0] : h \in BadHeaders, bs \in WholeSeqs(1)}
    \* a file that ends inside the header
    \cup {[header |-> h, blocks |-> <<>>, tail |-> 0] : h \in ShortHeaders}

RECURSIVE BlockStart(_, _)
\* offset of the header of block i of file f
BlockStart(f, i) ==
    IF i = 1 THEN f.header.len
    ELSE BlockStart(f, i - 1) + BlockHeaderLen + f.blocks[i - 1].present

TotalLen(f) ==
    IF f.blocks = <<>> THEN f.header.len + f.tail
    ELSE BlockStart(f, Len(f.blocks)) + BlockHeaderLen
            + f.blocks[Len(f.blocks)].present + f.tail

\* bytes the base reader can still deliver
Avail == TotalLen(input) - pos

Nil == [idx |-> 0, Size |-> 0, BlockType |-> 0]
NoStats == [consumed |-> 0, peeked |-> FALSE, ops |-> 0]
NoneEnded == [idx |-> 0, pos |-> 0, consumed |-> 0, peeked |-> FALSE, readAhead |-> 0]

(***************************************************************************)
(* DataStream.ReadHeader                                                   *)
(***************************************************************************)
HeaderPrefixOK(h) == SubSeq(h, 1, 33) = SubSeq(HeaderV6, 1, 33)

HeaderOK(h) == h = HeaderV6

\* ReadSceneTree up to its loop: ReadHeader, then NewSceneTree
ReadHeader ==
    /\ pc = "header"
    /\ pos' = Min(Len(HeaderV6), input.header.len)
    /\ IF input.header.len < Len(HeaderV6) \/ ~HeaderOK(HeaderBytes(input.header))
       THEN pc' = "done" /\ result' = "error"
       ELSE pc' = "readBlock" /\ result' = result
    /\ UNCHANGED <<input, currentBlock, remaining, buffered, stats, processed,
                   failed, ended, nReadBlock>>
    /\ UNCHANGED <<svars, tvars, kvars, cvars, bvars, lvars>>

(***************************************************************************)
(* TaggedBlockReader.ReadBlock, and what ReadSceneTree does with its error *)
(***************************************************************************)
ReadBlock ==
    /\ pc = "readBlock"
    /\ currentBlock = Nil
    /\ nReadBlock' = nReadBlock + 1
    /\ IF Avail >= BlockHeaderLen
       THEN LET i == Len(processed) + 1
                b == input.blocks[i]
            IN  /\ pos' = pos + BlockHeaderLen
                /\ currentBlock' = [idx |-> i, Size |-> b.blockLength,
                                    BlockType |-> b.blockType]
                /\ remaining' = b.blockLength
                /\ buffered' = 0
                /\ stats' = NoStats
                /\ processed' = Append(processed, i)
                /\ ended' = NoneEnded
                /\ pc' = "process"
                /\ result' = result
       ELSE \* ReadUint32 meets the end: io.EOF with no byte left, ErrUnexpectedEOF
            \* with 1..3; with 4..7 bytes a later ReadUint8 returns io.EOF itself
            /\ pos' = pos + Avail
            /\ pc' = "done"
            /\ result' = IF Avail \in 1..3 THEN "error" ELSE "tree"
            /\ UNCHANGED <<currentBlock, remaining, buffered, stats, processed, ended>>
    /\ UNCHANGED <<input, failed>>
    /\ UNCHANGED <<svars, tvars, kvars, cvars, bvars, lvars>>

(***************************************************************************)
(* The block handler, as the reads it makes on the per-block reader.       *)
(* Every typed read is an io.ReadFull on the bufio.Reader over the         *)
(* LimitedBufReader: it first takes what is buffered and then fills the    *)
(* buffer, each fill drawing up to min(4096, remaining) bytes from the     *)
(* base reader, as many as the base reader chooses to deliver.             *)
(***************************************************************************)
\* LimitedBufReader.Read: the most one call can deliver
LimitedReadMax(rem, avail) == IF rem <= 0 THEN 0 ELSE Min(Min(rem, ReaderBufSize), avail)

\* bytes the base reader alone could deliver
DeliverableUnlimited == Avail

\* bytes the limited reader can deliver before it or the file ends
Deliverable == Min(remaining, Avail)

HandlerRead(n) ==
    /\ pc = "process"
    /\ currentBlock.BlockType \in KnownBlockTypes
    /\ stats.ops < MaxOps
    /\ IF n <= buffered
       THEN /\ buffered' = buffered - n
            /\ stats' = [stats EXCEPT !.consumed = @ + n, !.ops = @ + 1]
            /\ UNCHANGED <<pos, remaining, pc, failed>>
       ELSE LET need == n - buffered
            IN  IF Deliverable >= need
                THEN \E s \in need..Min(Deliverable, need + ReaderBufSize - 1) :
                        /\ s = need \/ LimitedReadMax(remaining, Avail) > 0
                        /\ remaining' = remaining - s
                        /\ pos' = pos + s
                        /\ buffered' = s - need
                        /\ stats' = [stats EXCEPT !.consumed = @ + n, !.ops = @ + 1]
                        /\ UNCHANGED <<pc, failed>>
                ELSE \* truncated read: everything deliverable is consumed, the
                     \* handler returns the error to ReadSceneTree
                     /\ remaining' = remaining - Deliverable
                     /\ pos' = pos + Deliverable
                     /\ buffered' = 0
                     /\ stats' = [stats EXCEPT !.consumed = @ + buffered + Deliverable,
                                               !.ops = @ + 1]
                     /\ failed' = failed \cup {currentBlock.idx}
                     /\ pc' = "endBlock"
    /\ UNCHANGED <<input, currentBlock, processed, ended, nReadBlock, result>>
    /\ UNCHANGED <<svars, tvars, kvars, cvars, bvars, lvars>>

\* HasSubblock: reader.Peek(10); nothing is consumed, the buffer is filled
HandlerPeek ==
    /\ pc = "process"
    /\ currentBlock.BlockType \in KnownBlockTypes
    /\ stats.ops < MaxOps
    /\ stats' = [stats EXCEPT !.peeked = TRUE, !.ops = @ + 1]
    /\ IF buffered >= PeekLen
       THEN UNCHANGED <<pos, remaining, buffered>>
       ELSE LET need == PeekLen - buffered
            IN  IF Deliverable >= need
                THEN \E s \in need..Min(Deliverable, ReaderBufSize - buffered) :
                        /\ remaining' = remaining - s
                        /\ pos' = pos + s
                        /\ buffered' = buffered + s
                ELSE /\ remaining' = remaining - Deliverable
                     /\ pos' = pos + Deliverable
                     /\ buffered' = buffered + Deliverable
    /\ UNCHANGED <<input, pc, currentBlock, processed, failed, ended, nReadBlock, result>>
    /\ UNCHANGED <<svars, tvars, kvars, cvars, bvars, lvars>>

\* processBlock returns: nil at once for a block type it skips; nil or an
\* error (a tag mismatch) after at least one typed read for the others
HandlerReturn(err) ==
    /\ pc = "process"
    /\ IF currentBlock.BlockType \in KnownBlockTypes THEN stats.ops > 0 ELSE ~err
    /\ failed' = IF err THEN failed \cup {currentBlock.idx} ELSE failed
    /\ pc' = "endBlock"
    /\ UNCHANGED <<input, pos, currentBlock, remaining, buffered, stats, processed,
                   ended, nReadBlock, result>>
    /\ UNCHANGED <<svars, tvars, kvars, cvars, bvars, lvars>>

(***************************************************************************)
(* LimitedBufReader.Skip and TaggedBlockReader.EndBlock                    *)
(***************************************************************************)
SkipNothing(rem, avail) == [remaining |-> 0, read |-> 0, err |-> FALSE]

RECURSIVE SkipLoop(_, _)
\* the loop of Skip: chunks of at most chunkSize, each an io.ReadFull on the base reader
SkipLoop(rem, avail) ==
    IF rem <= 0 THEN [remaining |-> rem, read |-> 0, err |-> FALSE]
    ELSE LET readSize == Min(rem, chunkSize)
             n        == Min(readSize, avail)
         IN  IF n < readSize
             THEN [remaining |-> rem - n, read |-> n, err |-> TRUE]
             ELSE LET r == SkipLoop(rem - n, avail - n)
                  IN  [r EXCEPT !.read = @ + n]

Skip(rem, avail) == SkipLoop(rem, avail)

EndBlock ==
    /\ pc = "endBlock"
    /\ currentBlock # Nil
    /\ LET s == Skip(remaining, Avail)
       IN  /\ pos' = pos + s.read
           /\ remaining' = s.remaining
           /\ IF s.err
              THEN \* ReadSceneTree: "failed to end block"
                   /\ pc' = "done"
                   /\ result' = "error"
                   /\ UNCHANGED <<currentBlock, buffered, ended>>
              ELSE /\ pc' = "readBlock"
                   /\ currentBlock' = Nil
                   /\ buffered' = 0
                   /\ ended' = [idx |-> currentBlock.idx, pos |-> pos + s.read,
                                 consumed |-> stats.consumed, peeked |-> stats.peeked,
                                 readAhead |-> buffered]
                   /\ result' = result
    /\ UNCHANGED <<input, stats, processed, failed, nReadBlock>>
    /\ UNCHANGED <<svars, tvars, kvars, cvars, bvars, lvars>>

(***************************************************************************)
(* Identifiers.  CrdtID.Part2 is a uint64; it is written <<hi, lo>> with   *)
(* value hi * 2^24 + lo, so that the special anchor ids 2^48 - 2 and       *)
(* 2^48 - 1 and the additions the code makes on Part2 are exact.           *)
(* A Go pointer is written as a sequence: <<>> for nil, <<v>> for &v.      *)
(***************************************************************************)
Word24 == 4096 * 4096

CrdtID(p1, hi, lo) == [Part1 |-> p1, Part2 |-> <<hi, lo>>]
ZeroID == CrdtID(0, 0, 0)

\* CrdtID{Part1: id.Part1, Part2: id.Part2 + uint64(k)}
AddOffset(id, k) ==
    LET s == id.Part2[2] + k
    IN  [Part1 |-> id.Part1, Part2 |-> <<id.Part2[1] + (s \div Word24), s % Word24>>]

StylePlain   == 1
StyleHeading == 2
StyleBullet  == 4

TextTopY          == -88
SpecialAnchorYPos == 100
SpecialAnchorID1  == <<Word24 - 1, Word24 - 2>>
SpecialAnchorID2  == <<Word24 - 1, Word24 - 1>>
DefaultLineHeight == 70

\* lineHeights, by ParagraphStyle
lineHeights == (1 :> 70) @@ (4 :> 35) @@ (5 :> 35) @@ (3 :> 70) @@ (2 :> 150)
                   @@ (6 :> 35) @@ (7 :> 35)

(***************************************************************************)
(* Strings are sequences of bytes (UTF-8).                                 *)
(***************************************************************************)
NL == 10

\* for i, ch := range str: the byte index and the code point of every
\* character (encodings of one and two bytes; any other byte is U+FFFD)
RECURSIVE RangeStr(_, _)
RangeStr(str, i) ==
    IF i >= Len(str) THEN <<>>
    ELSE LET b == str[i + 1]
         IN  IF b >= 192 /\ b < 224 /\ i + 1 < Len(str)
                  /\ str[i + 2] >= 128 /\ str[i + 2] < 192
             THEN <<[i |-> i, ch |-> (b - 192) * 64 + (str[i + 2] - 128)]>>
                      \o RangeStr(str, i + 2)
             ELSE <<[i |-> i, ch |-> IF b < 128 THEN b ELSE 65533]>>
                      \o RangeStr(str, i + 1)

\* strings.Index(s, sep) for a one-byte separator, 0-based, -1 when absent
Index(s, sep) ==
    IF \E n \in 1..Len(s) : s[n] = sep
    THEN (CHOOSE n \in 1..Len(s) : s[n] = sep /\ \A m \in 1..(n - 1) : s[m] # sep) - 1
    ELSE -1

RECURSIVE SplitLoop(_, _)
SplitLoop(s, sep) ==
    LET m == Index(s, sep)
    IN  IF m < 0 THEN <<s>>
        ELSE <<SubSeq(s, 1, m)>> \o SplitLoop(SubSeq(s, m + 2, Len(s)), sep)

SplitNonEmpty(s, sep) == SelectSeq(SplitLoop(s, sep), LAMBDA piece : piece # <<>>)

\* strings.Split(s, sep)
Split(s, sep) == SplitLoop(s, sep)

(***************************************************************************)
(* BuildTextDocument                                                       *)
(***************************************************************************)
\* "Skip deleted items"
DocSkipsItem(item) == item.DeletedLength > 0

RECURSIVE AllText(_)
\* allText after the loop over the items
AllText(items) ==
    IF items = <<>> THEN <<>>
    ELSE IF DocSkipsItem(Head(items)) THEN AllText(Tail(items))
         ELSE Head(items).Value \o AllText(Tail(items))

RECURSIVE ItemStarts(_, _)
\* itemStarts after the loop over the items; start is allText.Len() so far
ItemStarts(items, start) ==
    IF items = <<>> THEN <<>>
    ELSE IF DocSkipsItem(Head(items)) THEN ItemStarts(Tail(items), start)
         ELSE <<[itemID |-> Head(items).ItemID, start |-> start]>>
                  \o ItemStarts(Tail(items), start + Len(Head(items).Value))

\* the first entry of itemStarts whose range holds position p, 0 when none
FindItem(itemStarts, fullLen, p) ==
    LET itemEnd(j) == IF j + 1 <= Len(itemStarts) THEN itemStarts[j + 1].start ELSE fullLen
        hit(j)     == itemStarts[j].start <= p /\ p < itemEnd(j)
    IN  IF \E j \in 1..Len(itemStarts) : hit(j)
        THEN CHOOSE j \in 1..Len(itemStarts) : hit(j) /\ \A h \in 1..(j - 1) : ~hit(h)
        ELSE 0

\* the id of position p inside entry j of itemStarts
IDAt(itemStarts, j, p) == AddOffset(itemStarts[j].itemID, p - itemStarts[j].start)

RECURSIVE CharPos(_, _)
\* charPos when the loop reaches line number i (counted from 0)
CharPos(lines, i) ==
    IF i = 0 THEN 0 ELSE CharPos(lines, i - 1) + Len(lines[i]) + 1

BuildTextDocument(textPtr) ==
    IF textPtr = <<>> THEN [Paragraphs |-> <<>>]
    ELSE
    LET t          == textPtr[1]
        fullText   == AllText(t.Items)
        itemStarts == ItemStarts(t.Items, 0)
        lines      == Split(fullText, NL)
        Para(n) ==
            LET i            == n - 1
                charPos      == CharPos(lines, i)
                styleCharPos == charPos - 1
                sj == IF i = 0 THEN (IF Len(itemStarts) > 0 THEN 1 ELSE 0)
                      ELSE FindItem(itemStarts, Len(fullText), styleCharPos)
                tj == IF i = 0 THEN sj
                      ELSE FindItem(itemStarts, Len(fullText), charPos)
                styleID == IF i = 0 THEN itemStarts[sj].itemID
                           ELSE IDAt(itemStarts, sj, styleCharPos)
                startID == IF tj = 0 THEN ZeroID
                           ELSE IF i = 0 THEN itemStarts[tj].itemID
                           ELSE IDAt(itemStarts, tj, charPos)
                paraStyle == IF sj # 0 /\ styleID \in DOMAIN t.Styles
                             THEN t.Styles[styleID].Value
                             ELSE StylePlain
            IN  [Text |-> lines[n], Style |-> paraStyle, StartID |-> startID]
    IN  IF fullText = <<>> THEN [Paragraphs |-> <<>>]
        ELSE [Paragraphs |-> [n \in 1..Len(lines) |-> Para(n)]]

RECURSIVE JoinFrom(_, _)
JoinFrom(paragraphs, n) ==
    IF n > Len(paragraphs) THEN <<>>
    ELSE (IF n > 1 THEN <<NL>> ELSE <<>>) \o paragraphs[n].Text
             \o JoinFrom(paragraphs, n + 1)

\* TextDocument.String
TextDocumentString(d) == JoinFrom(d.Paragraphs, 1)

(***************************************************************************)
(* buildAnchorPos                                                          *)
(***************************************************************************)
Put(map, key, value) ==
    [x \in (DOMAIN map) \cup {key} |-> IF x = key THEN value ELSE map[x]]

LineHeight(style) ==
    LET h == IF style \in DOMAIN lineHeights THEN lineHeights[style] ELSE 0
    IN  IF h = 0 THEN DefaultLineHeight ELSE h

AnchorKeepsDeleted(item) == FALSE

\* item.DeletedLength > 0 || item.Value == nil (a text item's value is never nil)
AnchorSkipsItem(item) == item.DeletedLength > 0

RECURSIVE AnchorChars(_, _, _, _)
\* the loop over the characters of one item; st is [map, yOffset]
AnchorChars(chars, item, posY, st) ==
    IF chars = <<>> THEN st
    ELSE LET c      == Head(chars)
             charID == AddOffset(item.ItemID, c.i)
         IN  IF c.ch = NL
             THEN LET y == st.yOffset + LineHeight(StylePlain)
                  IN  AnchorChars(Tail(chars), item, posY,
                                  [map |-> Put(st.map, charID, posY + y), yOffset |-> y])
             ELSE IF c.i = 0
                  THEN AnchorChars(Tail(chars), item, posY,
                                   [st EXCEPT !.map = Put(@, charID, posY + st.yOffset)])
                  ELSE AnchorChars(Tail(chars), item, posY, st)

RECURSIVE AnchorItems(_, _, _)
\* the loop over the items
AnchorItems(items, posY, st) ==
    IF items = <<>> THEN st
    ELSE IF AnchorSkipsItem(Head(items)) THEN AnchorItems(Tail(items), posY, st)
         ELSE AnchorItems(Tail(items), posY,
                          AnchorChars(RangeStr(Head(items).Value, 0), Head(items), posY, st))

SpecialAnchors == {[Part1 |-> 0, Part2 |-> SpecialAnchorID1],
                   [Part1 |-> 0, Part2 |-> SpecialAnchorID2]}

buildAnchorPos(textPtr) ==
    LET special == [id \in SpecialAnchors |-> SpecialAnchorYPos]
    IN  IF textPtr = <<>> THEN special
        ELSE AnchorItems(textPtr[1].Items, textPtr[1].PosY,
                         [map |-> special, yOffset |-> TextTopY]).map

(***************************************************************************)
(* The scene tree.  tree.Nodes maps a node id to its Group; a child item   *)
(* whose value is a group holds the id of that group (the *Group stored in *)
(* Nodes under that id, which is never replaced once created); tree.Root   *)
(* is the group under RootID.                                              *)
(***************************************************************************)
RootID == CrdtID(0, 0, 1)

NewEmptyGroup(id) ==
    [NodeID |-> id, Children |-> <<>>,
     Label |-> [Timestamp |-> ZeroID, Value |-> ""],
     Visible |-> [Timestamp |-> ZeroID, Value |-> TRUE],
     AnchorID |-> <<>>, AnchorType |-> <<>>, AnchorThreshold |-> <<>>,
     AnchorOriginX |-> <<>>]

NewSceneTree == [Nodes |-> (RootID :> NewEmptyGroup(RootID)), RootText |-> <<>>]

AddFirst(items, item) == <<item>> \o items

\* CrdtSequence.Add
Add(items, item) == Append(items, item)

\* "create if it doesn't exist"
Ensure(nodes, id) ==
    IF id \in DOMAIN nodes THEN nodes ELSE Put(nodes, id, NewEmptyGroup(id))

AddChild(nodes, parentID, item) ==
    [nodes EXCEPT ![parentID].Children = Add(@, item)]

GroupValue(id) == [kind |-> "group", id |-> id]
LineValue(line) == [kind |-> "line", line |-> line]

(***************************************************************************)
(* The block handlers on a decoded block.  failAt is the number of the     *)
(* typed read of the handler that fails (0: none does).  Each returns the  *)
(* tree it leaves and whether it returned an error.                        *)
(***************************************************************************)
readSceneTreeBlock(st, b) ==
    IF b.failAt # 0 THEN [tree |-> st, err |-> TRUE]
    ELSE LET n1 == Ensure(st.Nodes, b.treeID)
             n2 == Ensure(n1, b.parentID)
             item == [ItemID |-> b.treeID, LeftID |-> ZeroID, RightID |-> ZeroID,
                      DeletedLength |-> 0, Value |-> GroupValue(b.treeID)]
         IN  [tree |-> [st EXCEPT !.Nodes = AddChild(n2, b.parentID, item)],
              err |-> FALSE]

\* reads: 1 nodeID, 2 label, 3 visible, 4 anchorID, 5 anchorType,
\* 6 anchorThreshold, 7 anchorOriginX
readTreeNodeBlock(st, b) ==
    LET fails(k) == b.failAt # 0 /\ b.failAt <= k
    IN  IF fails(3) THEN [tree |-> st, err |-> TRUE]
        ELSE IF b.nodeID \notin DOMAIN st.Nodes
        THEN [tree |-> [st EXCEPT !.Nodes =
                           Put(@, b.nodeID, [NewEmptyGroup(b.nodeID) EXCEPT
                                                !.Label = b.label, !.Visible = b.visible])],
              err |-> FALSE]
        ELSE LET g0 == [st.Nodes[b.nodeID] EXCEPT !.Label = b.label, !.Visible = b.visible]
                 g1 == IF ~b.hasAnchor \/ fails(4) THEN g0
                       ELSE [g0 EXCEPT !.AnchorID = <<b.anchorID>>]
                 g2 == IF ~b.hasAnchor \/ fails(5) THEN g1
                       ELSE [g1 EXCEPT !.AnchorType = <<b.anchorType>>]
                 g3 == IF ~b.hasAnchor \/ fails(6) THEN g2
                       ELSE [g2 EXCEPT !.AnchorThreshold = <<b.anchorThreshold>>]
                 g4 == IF ~b.hasAnchor \/ fails(7) THEN g3
                       ELSE [g3 EXCEPT !.AnchorOriginX = <<b.anchorOriginX>>]
             IN  [tree |-> [st EXCEPT !.Nodes[b.nodeID] = g4],
                  err |-> b.hasAnchor /\ fails(7)]

readSceneGroupItemBlock(st, b) ==
    IF b.failAt # 0 THEN [tree |-> st, err |-> TRUE]
    ELSE IF ~b.hasValue THEN [tree |-> st, err |-> FALSE]
    ELSE LET n1 == Ensure(st.Nodes, b.parentID)
             n2 == Ensure(n1, b.nodeID)
             item == [ItemID |-> b.itemID, LeftID |-> b.leftID, RightID |-> b.rightID,
                      DeletedLength |-> b.deletedLength, Value |-> GroupValue(b.nodeID)]
         IN  [tree |-> [st EXCEPT !.Nodes = AddChild(n2, b.parentID, item)],
              err |-> FALSE]

readSceneLineItemBlock(st, b) ==
    IF b.failAt # 0 THEN [tree |-> st, err |-> TRUE]
    ELSE IF ~b.hasValue THEN [tree |-> st, err |-> FALSE]
    ELSE LET n1 == Ensure(st.Nodes, b.parentID)
             item == [ItemID |-> b.itemID, LeftID |-> b.leftID, RightID |-> b.rightID,
                      DeletedLength |-> b.deletedLength, Value |-> LineValue(b.line)]
         IN  [tree |-> [st EXCEPT !.Nodes = AddChild(n1, b.parentID, item)],
              err |-> FALSE]

NoStyles == [id \in {} |-> [Timestamp |-> ZeroID, Value |-> StylePlain]]

RECURSIVE FormatsLoop(_, _, _)
\* the loop of readRootTextBlock over the formatting array:
\* styles[charID] = style for every entry readTextFormat returns
FormatsLoop(formats, i, styles) ==
    IF i > Len(formats) THEN styles
    ELSE LET f == formats[i]
         IN  FormatsLoop(formats, i + 1,
                         Put(styles, f.charID, [Timestamp |-> f.timestamp, Value |-> f.style]))

readRootTextBlock(st, b) ==
    IF b.failAt # 0 THEN [tree |-> st, err |-> TRUE]
    ELSE [tree |-> [st EXCEPT !.RootText =
                       <<[Items |-> b.items, Styles |-> FormatsLoop(b.formats, 1, NoStyles),
                          PosX |-> b.posX, PosY |-> b.posY, Width |-> b.width]>>],
          err |-> FALSE]

processBlock(st, b) ==
    CASE b.blockType = BlockTypeSceneTree      -> readSceneTreeBlock(st, b)
      [] b.blockType = BlockTypeTreeNode       -> readTreeNodeBlock(st, b)
      [] b.blockType = BlockTypeSceneGroupItem -> readSceneGroupItemBlock(st, b)
      [] b.blockType = BlockTypeSceneLineItem  -> readSceneLineItemBlock(st, b)
      [] b.blockType = BlockTypeRootText       -> readRootTextBlock(st, b)
      [] OTHER                                 -> [tree |-> st, err |-> FALSE]

(***************************************************************************)
(* The exporter.  The body of the SVG is written as the sequence of its    *)
(* elements; coordinates are the arguments of scale().                     *)
(***************************************************************************)
ScreenWidth  == 1404
ScreenHeight == 1872
DefaultSegmentLength == 1000
NoPoint == -1

\* createPen: pen.segmentLength
SegmentLength(tool) ==
    CASE tool \in {2, 15} -> 5
      [] tool \in {3, 16} -> 3
      [] tool \in {1, 14, 0, 12, 21} -> 2
      [] OTHER -> DefaultSegmentLength

(***************************************************************************)
(* Opacities are written in units of 1/OpacityUnit, the common denominator *)
(* of speed/4/350 and pressure/255, so that                                *)
(* 0.1 * -((Speed/4)/35) + Pressure/255 = (-51 Speed + 280 Pressure) units *)
(***************************************************************************)
OpacityUnit == 71400

\* createPen: pen.baseOpacity
BaseOpacity(tool) ==
    CASE tool \in {7, 13} -> (7 * OpacityUnit) \div 10
      [] tool \in {5, 18} -> (3 * OpacityUnit) \div 10
      [] tool = 8         -> 0
      [] tool = 23        -> OpacityUnit \div 10
      [] OTHER            -> OpacityUnit

clamp(value) ==
    IF value < 0 THEN 0 ELSE IF value > OpacityUnit THEN OpacityUnit ELSE value

\* pen.getSegmentOpacity; the pens named "Pencil" are tools 1 and 14
getSegmentOpacity(tool, point) ==
    IF tool \in {1, 14}
    THEN clamp(280 * point.Pressure - 51 * point.Speed) - OpacityUnit \div 10
    ELSE BaseOpacity(tool)

RECURSIVE StrokeLoopOneSegment(_, _, _, _)
StrokeLoopOneSegment(line, i, segLen, last) ==
    IF i >= Len(line.Points) THEN <<>>
    ELSE LET point == line.Points[i + 1]
         IN  (IF i = 0
              THEN <<[t |-> "polyline", tool |-> line.Tool, color |-> line.Color,
                      opacity |-> getSegmentOpacity(line.Tool, point), first |-> point]>>
              ELSE <<>>)
             \o <<[t |-> "pt", x |-> point.X, y |-> point.Y]>>
             \o StrokeLoopOneSegment(line, i + 1, segLen, <<point.X, point.Y>>)

RECURSIVE StrokeLoop(_, _, _, _)
\* the loop of drawStroke from point number i (counted from 0); last is
\* <<lastXPos, lastYPos>>
StrokeLoop(line, i, segLen, last) ==
    IF i >= Len(line.Points) THEN <<>>
    ELSE LET point == line.Points[i + 1]
             open  == [t |-> "polyline", tool |-> line.Tool, color |-> line.Color,
                       opacity |-> getSegmentOpacity(line.Tool, point), first |-> point]
             head  == IF i % segLen = 0
                      THEN (IF last[1] # NoPoint THEN <<[t |-> "segment end"]>> ELSE <<>>)
                           \o <<open>>
                           \o (IF last[1] # NoPoint
                               THEN <<[t |-> "pt", x |-> last[1], y |-> last[2]]>>
                               ELSE <<>>)
                      ELSE <<>>
         IN  head \o <<[t |-> "pt", x |-> point.X, y |-> point.Y]>>
                  \o StrokeLoop(line, i + 1, segLen, <<point.X, point.Y>>)

drawStroke(line) ==
    StrokeLoop(line, 0, SegmentLength(line.Tool), <<NoPoint, NoPoint>>)
        \o <<[t |-> "stroke end"]>>

getAnchor(group, anchors) ==
    IF group.AnchorID # <<>> /\ group.AnchorOriginX # <<>>
    THEN [x |-> group.AnchorOriginX[1].Value,
          y |-> IF group.AnchorID[1].Value \in DOMAIN anchors
                THEN anchors[group.AnchorID[1].Value] ELSE 0]
    ELSE [x |-> 0, y |-> 0]

RECURSIVE TextLoopSkipEmpty(_, _, _, _)
TextLoopSkipEmpty(paragraphs, n, t, yOffset) ==
    IF n > Len(paragraphs) THEN <<>>
    ELSE LET p == paragraphs[n]
             y == yOffset + LineHeight(p.Style)
         IN  IF p.Text # <<>>
             THEN <<[t |-> "text", x |-> t.PosX, y |-> t.PosY + y,
                     style |-> p.Style, text |-> p.Text]>>
                      \o TextLoopSkipEmpty(paragraphs, n + 1, t, y)
             ELSE TextLoopSkipEmpty(paragraphs, n + 1, t, yOffset)

RECURSIVE TextLoop(_, _, _, _)
\* the loop of drawText over the paragraphs from number n; yOffset so far
TextLoop(paragraphs, n, t, yOffset) ==
    IF n > Len(paragraphs) THEN <<>>
    ELSE LET p == paragraphs[n]
             y == yOffset + LineHeight(p.Style)
         IN  (IF p.Text # <<>>
              THEN <<[t |-> "text", x |-> t.PosX, y |-> t.PosY + y,
                      style |-> p.Style, text |-> p.Text]>>
              ELSE <<>>)
             \o TextLoop(paragraphs, n + 1, t, y)

drawText(t) ==
    <<[t |-> "g", class |-> "root-text"]>>
        \o TextLoop(BuildTextDocument(<<t>>).Paragraphs, 1, t, TextTopY)
        \o <<[t |-> "/g"]>>

\* the recursion of drawGroup and getBoundingBox has no bound in the code;
\* depth is the number of nested calls after which the Go stack is taken to
\* be exhausted
MaxDepth == 4

RECURSIVE GroupLoop(_, _, _, _, _)
RECURSIVE drawGroup(_, _, _, _)
\* the loop of drawGroup over the children from number k
GroupLoop(nodes, children, k, anchors, depth) ==
    IF k > Len(children) THEN <<>>
    ELSE LET v == children[k].Value
         IN  (IF v.kind = "group" THEN drawGroup(nodes, v.id, anchors, depth - 1)
              ELSE drawStroke(v.line))
             \o GroupLoop(nodes, children, k + 1, anchors, depth)

drawGroup(nodes, id, anchors, depth) ==
    IF depth = 0 THEN <<[t |-> "stack overflow"]>>
    ELSE LET group == nodes[id]
             a     == getAnchor(group, anchors)
         IN  <<[t |-> "g", id |-> group.NodeID, x |-> a.x, y |-> a.y]>>
                 \o GroupLoop(nodes, group.Children, 1, anchors, depth)
                 \o <<[t |-> "/g"]>>

Overflow == [overflow |-> TRUE, xMin |-> 0, xMax |-> 0, yMin |-> 0, yMax |-> 0]

RECURSIVE PointsBox(_, _, _)
PointsBox(points, k, box) ==
    IF k > Len(points) THEN box
    ELSE PointsBox(points, k + 1,
                   [box EXCEPT !.xMin = Min(@, points[k].X), !.xMax = Max(@, points[k].X),
                               !.yMin = Min(@, points[k].Y), !.yMax = Max(@, points[k].Y)])

RECURSIVE BoxLoop(_, _, _, _, _, _)
RECURSIVE getBoundingBox(_, _, _, _)
\* the loop of getBoundingBox over the children from number k
BoxLoop(nodes, children, k, anchors, depth, box) ==
    IF k > Len(children) \/ box.overflow THEN box
    ELSE LET v == children[k].Value
         IN  IF v.kind = "group"
             THEN LET a == getAnchor(nodes[v.id], anchors)
                      c == getBoundingBox(nodes, v.id, anchors, depth - 1)
                  IN  IF c.overflow THEN Overflow
                      ELSE BoxLoop(nodes, children, k + 1, anchors, depth,
                                   [box EXCEPT !.xMin = Min(@, c.xMin + a.x),
                                               !.xMax = Max(@, c.xMax + a.x),
                                               !.yMin = Min(@, c.yMin + a.y),
                                               !.yMax = Max(@, c.yMax + a.y)])
             ELSE BoxLoop(nodes, children, k + 1, anchors, depth,
                          PointsBox(v.line.Points, 1, box))

getBoundingBox(nodes, id, anchors, depth) ==
    IF depth = 0 THEN Overflow
    ELSE BoxLoop(nodes, nodes[id].Children, 1, anchors, depth,
                 [overflow |-> FALSE,
                  xMin |-> -(ScreenWidth \div 2), xMax |-> ScreenWidth \div 2,
                  yMin |-> 0, yMax |-> ScreenHeight])

NoSvg == [crashed |-> FALSE, box |-> Overflow, body |-> <<>>]

\* ExportToSVG(tree, w): what it writes, or the crash of the unbounded recursion
ExportToSVG(st) ==
    LET anchors == buildAnchorPos(st.RootText)
        box     == getBoundingBox(st.Nodes, RootID, anchors, MaxDepth)
    IN  IF box.overflow THEN [crashed |-> TRUE, box |-> Overflow, body |-> <<>>]
        ELSE [crashed |-> FALSE, box |-> box,
              body |-> (IF st.RootText # <<>> THEN drawText(st.RootText[1]) ELSE <<>>)
                           \o drawGroup(st.Nodes, RootID, anchors, MaxDepth)]

(***************************************************************************)
(* Files given to ReadSceneTree, as decoded blocks.  cut says that the     *)
(* payload of the last block is cut short by the end of the file.          *)
(***************************************************************************)
MaxSceneBlocks == 3     \* blocks per file

NodeA == CrdtID(1, 0, 10)
NodeB == CrdtID(1, 0, 11)
Lww(v) == [Timestamp |-> CrdtID(1, 0, 5), Value |-> v]

PenFineliner1 == 4
PenPencil1    == 1
Pt(x, y) == [X |-> x, Y |-> y, Speed |-> 0, Direction |-> 0, Width |-> 8, Pressure |-> 128]
\* a stroke inside the page, and one of two segments that leaves it on the left and below
LineInside  == [Color |-> 0, Tool |-> PenFineliner1, ThicknessScale |-> 2,
                Points |-> <<Pt(10, 20), Pt(30, 40)>>]
LineOutside == [Color |-> 6, Tool |-> PenPencil1, ThicknessScale |-> 2,
                Points |-> <<Pt(-900, 2000), Pt(5, 5), Pt(6, 6)>>]

SceneTreeBlocks ==
    {[blockType |-> BlockTypeSceneTree, treeID |-> c[1], parentID |-> c[2], failAt |-> 0] :
        c \in {<<NodeA, RootID>>, <<NodeA, NodeA>>}}

TreeNodeBlocks ==
    {[blockType |-> BlockTypeTreeNode, nodeID |-> NodeA, label |-> Lww("Layer 1"),
      visible |-> Lww(TRUE), hasAnchor |-> TRUE, anchorID |-> Lww(c[1]),
      anchorType |-> Lww(1), anchorThreshold |-> Lww(0), anchorOriginX |-> Lww(30),
      failAt |-> c[2]] :
        c \in {<<CrdtID(1, 0, 17), 0>>, <<[Part1 |-> 0, Part2 |-> SpecialAnchorID1], 7>>}}

SceneGroupItemBlocks ==
    {[blockType |-> BlockTypeSceneGroupItem, parentID |-> RootID,
      itemID |-> CrdtID(1, 0, 21), leftID |-> ZeroID, rightID |-> ZeroID,
      deletedLength |-> c[1], hasValue |-> c[2], nodeID |-> c[3], failAt |-> 0] :
        c \in {<<0, TRUE, NodeA>>, <<1, TRUE, NodeB>>, <<0, FALSE, NodeA>>}}

\* item 22 names item 20 as its right neighbour and item 20 names item 22 as its left
SceneLineItemBlocks ==
    {[blockType |-> BlockTypeSceneLineItem, parentID |-> c[1], itemID |-> c[2],
      leftID |-> c[3], rightID |-> c[4], deletedLength |-> c[5], hasValue |-> TRUE,
      line |-> c[6], failAt |-> 0] :
        c \in {<<RootID, CrdtID(1, 0, 22), ZeroID, CrdtID(1, 0, 20), 0, LineInside>>,
               <<RootID, CrdtID(1, 0, 20), CrdtID(1, 0, 22), ZeroID, 0, LineOutside>>,
               <<NodeA,  CrdtID(1, 0, 20), CrdtID(1, 0, 22), ZeroID, 1, LineOutside>>}}

Format(id, ts, style) == [charID |-> id, timestamp |-> ts, style |-> style]

RootTextBlock(items, formats) ==
    [blockType |-> BlockTypeRootText, items |-> items, formats |-> formats,
     posX |-> -468, posY |-> 234, width |-> 936, failAt |-> 0]

\* "a\n" as a heading
RootTextBlocks ==
    {RootTextBlock(<<[ItemID |-> CrdtID(1, 0, 16), LeftID |-> ZeroID, RightID |-> ZeroID,
                      DeletedLength |-> 0, Value |-> <<97, NL>>]>>,
                   <<Format(CrdtID(1, 0, 16), CrdtID(1, 0, 5), StyleHeading)>>)}

\* a block type processBlock does not know
SkippedBlocks == {[blockType |-> 255]}

SceneBlocks == SceneTreeBlocks \cup TreeNodeBlocks \cup SceneGroupItemBlocks
                  \cup SceneLineItemBlocks \cup RootTextBlocks \cup SkippedBlocks

\* the blocks that end a file whose last payload is cut short
CutSceneBlocks == SkippedBlocks \cup {b \in SceneLineItemBlocks : b.deletedLength > 0}

Scenes == {[blocks |-> bs, cut |-> FALSE] : bs \in SeqsUpTo(SceneBlocks, MaxSceneBlocks)}
    \cup {[blocks |-> Append(bs, b), cut |-> TRUE] :
            bs \in SeqsUpTo(SceneBlocks, MaxSceneBlocks - 1), b \in CutSceneBlocks}

RECURSIVE ProcessFrom(_, _, _)
\* the loop of ReadSceneTree from block number k
ProcessFrom(st, f, k) ==
    IF k > Len(f.blocks) THEN [ok |-> TRUE, tree |-> st]
    ELSE LET r == processBlock(st, f.blocks[k])
         IN  IF f.cut /\ k = Len(f.blocks)
             THEN [ok |-> FALSE, tree |-> NewSceneTree]      \* "failed to end block"
             ELSE ProcessFrom(r.tree, f, k + 1)

\* ReadSceneTree of a file with a well-formed header: the tree, or an error
ReadSceneTreeOf(f) == ProcessFrom(NewSceneTree, f, 1)

\* one turn of the loop of ReadSceneTree: ReadBlock, processBlock, EndBlock
ReadAndProcessBlock ==
    /\ spc = "parse"
    /\ cursor < Len(scene.blocks)
    /\ cursor' = cursor + 1
    /\ tree' = processBlock(tree, scene.blocks[cursor + 1]).tree
    /\ spc' = IF scene.cut /\ cursor + 1 = Len(scene.blocks) THEN "failed" ELSE "parse"
    /\ UNCHANGED <<scene, svg>>
    /\ UNCHANGED <<rvars, tvars, kvars, cvars, bvars, lvars>>

\* ReadBlock returns io.EOF: ReadSceneTree returns the tree
ReadBlockEOF ==
    /\ spc = "parse"
    /\ cursor = Len(scene.blocks)
    /\ spc' = "parsed"
    /\ UNCHANGED <<scene, cursor, tree, svg>>
    /\ UNCHANGED <<rvars, tvars, kvars, cvars, bvars, lvars>>

Export ==
    /\ spc = "parsed"
    /\ svg' = ExportToSVG(tree)
    /\ spc' = "exported"
    /\ UNCHANGED <<scene, cursor, tree>>
    /\ UNCHANGED <<rvars, tvars, kvars, cvars, bvars, lvars>>

(***************************************************************************)
(* RootText blocks given to the parser, and the export of their text       *)
(***************************************************************************)
MaxItems == 2      \* items of a root text

TextItemIDs == {CrdtID(1, 0, 16), CrdtID(1, 0, 17), CrdtID(0, Word24 - 1, Word24 - 2)}
\* "", "\n", "a\n" and e-acute followed by "\n"
TextValues  == {<<>>, <<NL>>, <<97, NL>>, <<195, 169, NL>>}
TextItems   == [ItemID : TextItemIDs, LeftID : {ZeroID}, RightID : {ZeroID},
                DeletedLength : {0, 2}, Value : TextValues]

\* formatting arrays: none; a heading on (1, 16); two entries for (1, 17) of
\* timestamps (1, 5) < (1, 6), and (2, 3) > (1, 6), in both orders; a style
\* (9) that has no line height, with a bullet
FormatLists ==
    {<<>>,
     <<Format(CrdtID(1, 0, 16), CrdtID(1, 0, 5), StyleHeading)>>,
     <<Format(CrdtID(1, 0, 17), CrdtID(1, 0, 5), StyleBullet),
       Format(CrdtID(1, 0, 17), CrdtID(1, 0, 6), StyleHeading)>>,
     <<Format(CrdtID(1, 0, 17), CrdtID(2, 0, 3), StyleHeading),
       Format(CrdtID(1, 0, 17), CrdtID(1, 0, 6), StyleBullet)>>,
     <<Format(CrdtID(1, 0, 17), CrdtID(1, 0, 5), 9),
       Format(CrdtID(1, 0, 16), CrdtID(1, 0, 5), StyleBullet)>>}

TextBlocks == {RootTextBlock(items, formats) :
                  items \in SeqsUpTo(TextItems, MaxItems), formats \in FormatLists}

NoDoc  == [Paragraphs |-> <<>>]

\* processBlock on the RootText block: st.RootText = &Text{...}
ReadRootTextBlock ==
    /\ tpc = "block"
    /\ text' = processBlock(NewSceneTree, tblock).tree.RootText[1]
    /\ tpc' = "start"
    /\ UNCHANGED <<tblock, anchorPos, doc, tsvg>>
    /\ UNCHANGED <<rvars, svars, kvars, cvars, bvars, lvars>>

\* ExportToSVG: anchorPos := buildAnchorPos(tree.RootText)
ExportBuildAnchorPos ==
    /\ tpc = "start"
    /\ anchorPos' = buildAnchorPos(<<text>>)
    /\ tpc' = "anchors"
    /\ UNCHANGED <<tblock, text, doc, tsvg>>
    /\ UNCHANGED <<rvars, svars, kvars, cvars, bvars, lvars>>

\* ExportToSVG: drawText(w, tree.RootText), which calls BuildTextDocument
DrawTextBuildDocument ==
    /\ tpc = "anchors"
    /\ doc' = BuildTextDocument(<<text>>)
    /\ tsvg' = drawText(text)
    /\ tpc' = "drawn"
    /\ UNCHANGED <<tblock, text, anchorPos>>
    /\ UNCHANGED <<rvars, svars, kvars, cvars, bvars, lvars>>

(***************************************************************************)
(* Strokes given to drawStroke                                             *)
(***************************************************************************)
MaxPoints == 6     \* points of a stroke

\* paintbrush, pencil, ballpoint, marker, fineliner, highlighter, mechanical
\* pencil, eraser area, pencil 2, shader, and a tool createPen does not know
StrokeTools == {0, 1, 2, 3, 4, 5, 7, 8, 14, 23, 99}

\* <<speed, pressure>> of the points, in turn
Samples == <<<<0, 0>>, <<0, 255>>, <<65535, 255>>, <<1400, 128>>, <<20, 25>>>>

\* the x of point number i is 10 * i - xShift: with 21 the second point is at
\* x = -1, with 31 the third
XShifts == {0, 21, 31}

StrokePoint(i, shift, xShift) ==
    LET s == Samples[((i + shift) % Len(Samples)) + 1]
    IN  [X |-> 10 * i - xShift, Y |-> 5 * i, Speed |-> s[1], Direction |-> 0, Width |-> 8,
         Pressure |-> s[2]]

Strokes ==
    {[Color |-> 0, Tool |-> tool, ThicknessScale |-> 2,
      Points |-> [i \in 1..n |-> StrokePoint(i, shift, xShift)]] :
        tool \in StrokeTools, n \in 0..MaxPoints, shift \in 0..(Len(Samples) - 1),
        xShift \in XShifts}

\* drawGroup: case *parser.Line: drawStroke(v, w, indent)
DrawStroke ==
    /\ lpc = "start"
    /\ lsvg' = drawStroke(stroke)
    /\ lpc' = "drawn"
    /\ UNCHANGED stroke
    /\ UNCHANGED <<rvars, svars, tvars, cvars, bvars, lvars>>

(***************************************************************************)
(* OrderFilesByContent.  A path or a page id is the sequence of its        *)
(* characters; the .content file is what ReadContentFile returns for it:   *)
(* an error, or the ids of cPages.pages.                                   *)
(***************************************************************************)
LastIndex(s, c) ==
    IF \E n \in 1..Len(s) : s[n] = c
    THEN CHOOSE n \in 1..Len(s) : s[n] = c /\ \A m \in (n + 1)..Len(s) : s[m] # c
    ELSE 0

\* filepath.Base for a path that does not end with a separator
Base(path) == IF path = <<>> THEN <<".">>
              ELSE SubSeq(path, LastIndex(path, "/") + 1, Len(path))

\* filepath.Ext: the suffix from the last dot of the last element of the path
Ext(path) ==
    LET d == LastIndex(path, ".")
    IN  IF d > LastIndex(path, "/") THEN SubSeq(path, d, Len(path)) ELSE <<>>

\* strings.TrimSuffix
TrimSuffix(s, suffix) ==
    IF Len(suffix) <= Len(s) /\ SubSeq(s, Len(s) - Len(suffix) + 1, Len(s)) = suffix
    THEN SubSeq(s, 1, Len(s) - Len(suffix))
    ELSE s

BaseName(file) == TrimSuffix(Base(file), Ext(file))

\* GetPageIDs
GetPageIDs(content) == content.pages

RECURSIVE FileMap(_, _)
\* fileMap after the loop over files[1..n]: fileMap[baseName] = file
FileMap(files, n) ==
    IF n = 0 THEN [b \in {} |-> <<>>]
    ELSE Put(FileMap(files, n - 1), BaseName(files[n]), files[n])

RECURSIVE Matched(_, _, _)
\* orderedFiles after the loop over the page ids from number k
Matched(pageIDs, k, fileMap) ==
    IF k > Len(pageIDs) THEN <<>>
    ELSE (IF pageIDs[k] \in DOMAIN fileMap THEN <<fileMap[pageIDs[k]]>> ELSE <<>>)
             \o Matched(pageIDs, k + 1, fileMap)

\* the modification time os.Stat reports for a file
ModTime(file) == Len(file) + (IF Len(file) > 0 /\ file[1] = "x" THEN 0 ELSE 10)

RECURSIVE Insert(_, _)
Insert(sorted, file) ==
    IF sorted = <<>> THEN <<file>>
    ELSE IF ModTime(file) < ModTime(Head(sorted)) THEN <<file>> \o sorted
         ELSE <<Head(sorted)>> \o Insert(Tail(sorted), file)

RECURSIVE SortByModTime(_)
\* sort.Slice by ModTime; files of one modification time are copies of one path
SortByModTime(files) ==
    IF files = <<>> THEN <<>>
    ELSE Insert(SortByModTime(SubSeq(files, 1, Len(files) - 1)), files[Len(files)])

Elements(s) == {s[n] : n \in 1..Len(s)}

\* "If we matched some but not all files, add unmatched files at the end":
\* matchedCount is len(orderedFiles)
AppendUnmatched(files, orderedFiles) ==
    IF Len(orderedFiles) < Len(files)
    THEN orderedFiles
             \o SortByModTime(SelectSeq(files, LAMBDA f : f \notin Elements(orderedFiles)))
    ELSE orderedFiles

OrderFilesByContent(files, content) ==
    IF ~content.ok THEN [files |-> files, used |-> FALSE]
    ELSE LET pageIDs      == GetPageIDs(content)
             orderedFiles == Matched(pageIDs, 1, FileMap(files, Len(files)))
         IN  IF Len(pageIDs) = 0 THEN [files |-> files, used |-> FALSE]
             ELSE IF Len(orderedFiles) = 0 THEN [files |-> files, used |-> FALSE]
             ELSE [files |-> AppendUnmatched(files, orderedFiles), used |-> TRUE]

MaxFiles == 3     \* input files
MaxPages == 2     \* pages of the content file

\* p.rm, q.rm, d/p.rm, x.rm and p.v.rm
FilePaths == {<<"p", ".", "r", "m">>, <<"q", ".", "r", "m">>,
              <<"d", "/", "p", ".", "r", "m">>, <<"x", ".", "r", "m">>,
              <<"p", ".", "v", ".", "r", "m">>}
PageIDs   == {<<"p">>, <<"q">>, <<"z">>}

Contents == {[ok |-> FALSE, pages |-> <<>>]}
                \cup {[ok |-> TRUE, pages |-> ps] : ps \in SeqsUpTo(PageIDs, MaxPages)}

OrderFiles ==
    /\ cpc = "start"
    /\ ordered' = OrderFilesByContent(inFiles, contentFile)
    /\ cpc' = "ordered"
    /\ UNCHANGED <<inFiles, contentFile>>
    /\ UNCHANGED <<rvars, svars, tvars, kvars, bvars, lvars>>

(***************************************************************************)
(* The handlers on the bytes of a block payload.  buf is the payload the   *)
(* per-block reader can deliver (the LimitedBufReader ends it); a reader   *)
(* state r is [off, err, val]: the bytes consumed so far, whether a read   *)
(* has failed, and the value of the last read.                             *)
(***************************************************************************)
TagTypeID      == 15
TagTypeLength4 == 12
TagTypeByte8   == 8
TagTypeByte4   == 4
TagTypeByte1   == 1

Rd(off) == [off |-> off, err |-> FALSE, val |-> 0]
Failed(r) == [off |-> r.off, err |-> TRUE, val |-> 0]

\* v := ...; F(v): the value is computed once, then used
Let(v, F(_)) == CHOOSE out \in {F(x) : x \in {v}} : TRUE

\* DataStream.ReadBytes: io.ReadFull takes what is left when it is too little
ReadBytes(buf, reader, n) ==
    Let(reader, LAMBDA r :
        IF r.err THEN Failed(r)
        ELSE IF r.off + n > Len(buf) THEN [off |-> Len(buf), err |-> TRUE, val |-> 0]
        ELSE [off |-> r.off + n, err |-> FALSE,
              val |-> SubSeq(buf, r.off + 1, r.off + n)])

ReadUint8(buf, r) ==
    Let(ReadBytes(buf, r, 1), LAMBDA b :
        IF b.err THEN Failed(b) ELSE [b EXCEPT !.val = b.val[1]])

\* binary.LittleEndian.Uint32
ReadUint32(buf, r) ==
    Let(ReadBytes(buf, r, 4), LAMBDA b :
        IF b.err THEN Failed(b)
        ELSE [b EXCEPT !.val = b.val[1] + 256 * b.val[2] + 65536 * b.val[3]
                                   + 65536 * 256 * b.val[4]])

RECURSIVE VarUintLoop(_, _, _, _)
\* the loop of ReadVarUint: mul is 2^shift, acc is result
VarUintLoop(buf, r, mul, acc) ==
    Let(ReadUint8(buf, r), LAMBDA b :
        IF b.err THEN Failed(b)
        ELSE IF b.val < 128 THEN [b EXCEPT !.val = acc + b.val * mul]
        ELSE VarUintLoop(buf, b, mul * 128, acc + (b.val - 128) * mul))

ReadVarUint(buf, r) == VarUintLoop(buf, r, 1, 0)

\* DataStream.ReadTag
ReadTag(buf, r, expectedIndex, expectedType) ==
    Let(ReadVarUint(buf, r), LAMBDA x :
        IF x.err THEN Failed(x)
        ELSE IF x.val \div 16 # expectedIndex \/ x.val % 16 # expectedType THEN Failed(x)
        ELSE x)

ReadCrdtID(buf, r) ==
    Let(ReadUint8(buf, r), LAMBDA part1 :
    Let(ReadVarUint(buf, part1), LAMBDA part2 :
        IF part2.err THEN Failed(part2)
        ELSE [part2 EXCEPT !.val = CrdtID(part1.val, part2.val \div Word24,
                                          part2.val % Word24)]))

ReadID(buf, r, index) == ReadCrdtID(buf, ReadTag(buf, r, index, TagTypeID))

ReadInt(buf, r, index) == ReadUint32(buf, ReadTag(buf, r, index, TagTypeByte4))

\* ReadFloat: the four bytes of the float32, as they are
ReadFloat(buf, r, index) == ReadBytes(buf, ReadTag(buf, r, index, TagTypeByte4), 4)

\* DataStream.ReadFloat64: the eight bytes of the float64, as they are
ReadFloat64(buf, r) == ReadBytes(buf, r, 8)

\* TaggedBlockReader.ReadSubblock: the tag and the length, which is returned
ReadSubblock(buf, r, index) == ReadUint32(buf, ReadTag(buf, r, index, TagTypeLength4))

RECURSIVE PeekVarUint(_, _, _, _)
\* the loop of HasSubblock over the peeked bytes from number i
PeekVarUint(peek, i, mul, acc) ==
    IF i > Len(peek) THEN acc
    ELSE IF peek[i] < 128 THEN acc + peek[i] * mul
    ELSE PeekVarUint(peek, i + 1, mul * 128, acc + (peek[i] - 128) * mul)

\* TaggedBlockReader.HasSubblock: Peek(10) returns an error when fewer than
\* 10 bytes are left
HasSubblock(buf, reader, index) ==
    Let(reader, LAMBDA r :
        IF Len(buf) - r.off < PeekLen THEN FALSE
        ELSE LET peek == SubSeq(buf, r.off + 1, r.off + PeekLen)
             IN  Let(PeekVarUint(peek, 1, 1, 0), LAMBDA x :
                     x \div 16 = index /\ x % 16 = TagTypeLength4))

\* DataStream.ReadString
DataReadString(buf, r) ==
    Let(ReadVarUint(buf, r), LAMBDA length :
    Let(ReadUint8(buf, length), LAMBDA isAscii :
        IF isAscii.err THEN Failed(isAscii)
        ELSE IF length.val = 0 THEN [isAscii EXCEPT !.val = <<>>]
        ELSE ReadBytes(buf, isAscii, length.val)))

\* TaggedBlockReader.ReadString
ReadString(buf, r, index) == DataReadString(buf, ReadSubblock(buf, r, index))

\* readSceneGroupItemBlock up to "if nodeID == nil": the fields it has read
readSceneGroupItemFields(buf) ==
    Let(ReadID(buf, Rd(0), 1), LAMBDA parentID :
    Let(ReadID(buf, parentID, 2), LAMBDA itemID :
    Let(ReadID(buf, itemID, 3), LAMBDA leftID :
    Let(ReadID(buf, leftID, 4), LAMBDA rightID :
    Let(ReadInt(buf, rightID, 5), LAMBDA deletedLength :
        IF deletedLength.err THEN [err |-> TRUE, off |-> deletedLength.off]
        ELSE IF ~HasSubblock(buf, deletedLength, 6)
        THEN [err |-> FALSE, off |-> deletedLength.off, hasValue |-> FALSE,
              parentID |-> parentID.val, itemID |-> itemID.val, leftID |-> leftID.val,
              rightID |-> rightID.val, deletedLength |-> deletedLength.val]
        ELSE Let(ReadID(buf, ReadUint8(buf, ReadSubblock(buf, deletedLength, 6)), 2),
                 LAMBDA id :
                 IF id.err THEN [err |-> TRUE, off |-> id.off]
                 ELSE [err |-> FALSE, off |-> id.off, hasValue |-> TRUE,
                       parentID |-> parentID.val, itemID |-> itemID.val,
                       leftID |-> leftID.val, rightID |-> rightID.val,
                       deletedLength |-> deletedLength.val, nodeID |-> id.val]))))))

readTextItem(buf, r) ==
    Let(ReadID(buf, ReadSubblock(buf, r, 0), 2), LAMBDA itemID :
    Let(ReadID(buf, itemID, 3), LAMBDA leftID :
    Let(ReadID(buf, leftID, 4), LAMBDA rightID :
    Let(ReadInt(buf, rightID, 5), LAMBDA deletedLength :
        LET item(value) == [ItemID |-> itemID.val, LeftID |-> leftID.val,
                            RightID |-> rightID.val,
                            DeletedLength |-> deletedLength.val, Value |-> value]
        IN  IF deletedLength.err THEN Failed(deletedLength)
            ELSE IF HasSubblock(buf, deletedLength, 6)
            THEN Let(ReadString(buf, deletedLength, 6), LAMBDA str :
                     IF str.err THEN Failed(str) ELSE [str EXCEPT !.val = item(str.val)])
            ELSE [deletedLength EXCEPT !.val = item(<<>>)]))))

RECURSIVE TextItemsLoop(_, _, _, _)
\* the loop of readRootTextBlock over the text items; val is textItems
TextItemsLoop(buf, r, n, items) ==
    IF n = 0 THEN [r EXCEPT !.val = items]
    ELSE Let(readTextItem(buf, r), LAMBDA item :
             IF item.err THEN Failed(item)
             ELSE TextItemsLoop(buf, item, n - 1, Add(items, item.val)))

readTextFormat(buf, r) ==
    Let(ReadCrdtID(buf, r), LAMBDA charID :
    Let(ReadID(buf, charID, 1), LAMBDA timestamp :
    Let(ReadUint8(buf, ReadUint8(buf, ReadSubblock(buf, timestamp, 2))),
        LAMBDA formatCode :
        IF formatCode.err THEN Failed(formatCode)
        ELSE [formatCode EXCEPT !.val = [charID |-> charID.val,
                                         timestamp |-> timestamp.val,
                                         style |-> formatCode.val]])))

RECURSIVE TextFormatsLoop(_, _, _, _)
\* the loop of readRootTextBlock over the formatting array; val is the array
TextFormatsLoop(buf, r, n, formats) ==
    IF n = 0 THEN [r EXCEPT !.val = formats]
    ELSE Let(readTextFormat(buf, r), LAMBDA f :
             IF f.err THEN Failed(f)
             ELSE TextFormatsLoop(buf, f, n - 1, Append(formats, f.val)))

\* readRootTextBlock on the bytes of the payload: the fields it has read
readRootTextFields(buf) ==
    Let(ReadVarUint(buf, ReadSubblock(buf, ReadSubblock(buf,
            ReadSubblock(buf, ReadID(buf, Rd(0), 1), 2), 1), 1)), LAMBDA numTextItems :
    Let(IF numTextItems.err THEN Failed(numTextItems)
        ELSE TextItemsLoop(buf, numTextItems, numTextItems.val, <<>>), LAMBDA textItems :
    Let(ReadVarUint(buf, ReadSubblock(buf, ReadSubblock(buf, textItems, 2), 1)),
        LAMBDA numFormats :
    Let(IF numFormats.err THEN Failed(numFormats)
        ELSE TextFormatsLoop(buf, numFormats, numFormats.val, <<>>), LAMBDA formats :
    Let(ReadFloat64(buf, ReadSubblock(buf, formats, 3)), LAMBDA posX :
    Let(ReadFloat64(buf, posX), LAMBDA posY :
    Let(ReadFloat(buf, posY, 4), LAMBDA width :
        IF width.err THEN [err |-> TRUE, off |-> width.off]
        ELSE [err |-> FALSE, off |-> width.off, items |-> textItems.val,
              formats |-> formats.val, posX |-> posX.val, posY |-> posY.val,
              width |-> width.val])))))))

(***************************************************************************)
(* Payloads, written from the fields they encode                           *)
(***************************************************************************)
MaxByteItems == 2     \* text items of an encoded RootText block

EncVarUint(v) == IF v < 128 THEN <<v>> ELSE <<128 + (v % 128), v \div 128>>
EncTag(index, type) == EncVarUint(index * 16 + type)
EncUint32(v) == <<v % 256, (v \div 256) % 256, (v \div 65536) % 256, v \div (65536 * 256)>>
EncID(index, id) == EncTag(index, TagTypeID) \o <<id.Part1>> \o EncVarUint(id.Part2[2])
EncSubblock(index, body) == EncTag(index, TagTypeLength4) \o EncUint32(Len(body)) \o body
EncString(s) == EncVarUint(Len(s)) \o <<1>> \o s

\* a scene group item: its value sub-block is the last thing in the payload
\* but for pad bytes of a later format
EncGroupItem(g) ==
    EncID(1, g.parentID) \o EncID(2, g.itemID) \o EncID(3, g.leftID) \o EncID(4, g.rightID)
        \o EncTag(5, TagTypeByte4) \o EncUint32(g.deletedLength)
        \o (IF g.hasValue THEN EncSubblock(6, <<2>> \o EncID(2, g.nodeID)) ELSE <<>>)
        \o g.pad

\* a text item; extra are bytes of a later format at the end of its sub-block
EncTextItem(it) ==
    EncSubblock(0, EncID(2, it.item.ItemID) \o EncID(3, it.item.LeftID)
                       \o EncID(4, it.item.RightID)
                       \o EncTag(5, TagTypeByte4) \o EncUint32(it.item.DeletedLength)
                       \o (IF it.hasValue THEN EncSubblock(6, EncString(it.item.Value))
                           ELSE <<>>)
                       \o it.extra)

RECURSIVE Concat(_)
Concat(ss) == IF ss = <<>> THEN <<>> ELSE Head(ss) \o Concat(Tail(ss))

EncFormat(f) ==
    <<f.charID.Part1>> \o EncVarUint(f.charID.Part2[2]) \o EncID(1, f.timestamp)
        \o EncSubblock(2, <<17, f.style>>)

EncRootText(t) ==
    LET items   == EncVarUint(Len(t.items))
                       \o Concat([n \in 1..Len(t.items) |-> EncTextItem(t.items[n])])
        formats == EncVarUint(Len(t.formats))
                       \o Concat([n \in 1..Len(t.formats) |-> EncFormat(t.formats[n])])
    IN  EncID(1, CrdtID(0, 0, 0))
            \o EncSubblock(2, EncSubblock(1, EncSubblock(1, items))
                                  \o EncSubblock(2, EncSubblock(1, formats))
                                  \o EncSubblock(3, t.posX \o t.posY))
            \o EncTag(4, TagTypeByte4) \o t.width

\* node ids of one and of two bytes of varuint
GroupItemSources ==
    {[kind |-> "group", parentID |-> RootID, itemID |-> CrdtID(1, 0, 21),
      leftID |-> ZeroID, rightID |-> ZeroID, deletedLength |-> 0,
      hasValue |-> c[1], nodeID |-> c[2], pad |-> c[3]] :
        c \in BOOLEAN \X {CrdtID(0, 0, 11), CrdtID(1, 0, 300)} \X {<<>>, <<0>>, <<0, 0>>}}

\* a field 7 of a later format
UnknownField == EncTag(7, TagTypeByte1) \o <<1>>

EncodedTextItems ==
    {[item |-> [ItemID |-> CrdtID(1, 0, 16), LeftID |-> ZeroID, RightID |-> ZeroID,
                DeletedLength |-> 0, Value |-> c[1]],
      hasValue |-> c[2], extra |-> c[3]] :
        c \in {<<<<97, NL>>, TRUE, <<>>>>, <<<<97, NL>>, TRUE, UnknownField>>,
               <<<<>>, TRUE, <<>>>>, <<<<>>, FALSE, <<>>>>, <<<<>>, FALSE, UnknownField>>}}

RootTextSources ==
    {[kind |-> "text", items |-> items, formats |-> formats,
      posX |-> <<0, 0, 0, 0, 0, 64, 125, 192>>, posY |-> <<0, 0, 0, 0, 0, 64, 109, 64>>,
      width |-> <<0, 0, 106, 68>>] :
        items \in SeqsUpTo(EncodedTextItems, MaxByteItems),
        formats \in {<<>>, <<Format(CrdtID(1, 0, 16), CrdtID(1, 0, 5), StyleHeading)>>}}

\* processBlock, case BlockTypeSceneGroupItem
ReadSceneGroupItemBytes ==
    /\ bpc = "start"
    /\ bsrc.kind = "group"
    /\ fields' = readSceneGroupItemFields(payload)
    /\ bpc' = "read"
    /\ UNCHANGED <<bsrc, payload>>
    /\ UNCHANGED <<rvars, svars, tvars, kvars, cvars, lvars>>

\* processBlock, case BlockTypeRootText
ReadRootTextBytes ==
    /\ bpc = "start"
    /\ bsrc.kind = "text"
    /\ fields' = readRootTextFields(payload)
    /\ bpc' = "read"
    /\ UNCHANGED <<bsrc, payload>>
    /\ UNCHANGED <<rvars, svars, tvars, kvars, cvars, lvars>>

(***************************************************************************)
(* readSceneLineItemBlock and readLine on the bytes of a block payload     *)
(***************************************************************************)
PointSizeV2 == 14
PointSizeV1 == 24

\* TaggedBlockReader.ReadDouble: the eight bytes of the float64, as they are
ReadDouble(buf, r, index) == ReadFloat64(buf, ReadTag(buf, r, index, TagTypeByte8))

\* readPoint: the bytes of the point, as they are; it fails when one of its
\* reads does, which is when fewer than the point's bytes are left
readPoint(buf, r, version) ==
    ReadBytes(buf, r, IF version = 1 THEN PointSizeV1 ELSE PointSizeV2)

RECURSIVE PointsLoop(_, _, _, _, _)
\* the loop of readLine over the points; val is points
PointsLoop(buf, r, version, n, points) ==
    IF n = 0 THEN [r EXCEPT !.val = points]
    ELSE Let(readPoint(buf, r, version), LAMBDA point :
             IF point.err THEN Failed(point)
             ELSE PointsLoop(buf, point, version, n - 1, Append(points, point.val)))

\* a read whose error the caller drops: the stream goes on where it stopped
Dropped(r) == [r EXCEPT !.err = FALSE]

\* TaggedBlockReader.RemainingInBlock: the bytes of the payload not yet read
RemainingInBlock(buf, r) == Len(buf) - r.off

RGBA(r, g, b, a) == [R |-> r, G |-> g, B |-> b, A |-> a]

\* HardcodedColorMap: the palette of RGBA values with a pen colour of their own
NoColorMap == [c \in {} |-> 0]
ColorHighlight == 9
HardcodedColorMaps == {NoColorMap, [c \in {RGBA(255, 237, 117, 255)} |-> ColorHighlight]}

\* readLine, "Check if there are additional bytes for color data": val is colorID
readColor(buf, r, colorID, colorMap) ==
    IF RemainingInBlock(buf, r) < 6 THEN [r EXCEPT !.val = colorID]
    ELSE Let(ReadBytes(buf, r, 2), LAMBDA prefix :
         IF prefix.err THEN [Dropped(prefix) EXCEPT !.val = colorID]
         ELSE Let(ReadUint8(buf, prefix), LAMBDA b :
              Let(ReadUint8(buf, Dropped(b)), LAMBDA g :
              Let(ReadUint8(buf, Dropped(g)), LAMBDA rr :
              Let(ReadUint8(buf, Dropped(rr)), LAMBDA a :
                  IF ~b.err /\ ~g.err /\ ~rr.err /\ ~a.err
                       /\ RGBA(rr.val, g.val, b.val, a.val) \in DOMAIN colorMap
                  THEN [a EXCEPT !.val = colorMap[RGBA(rr.val, g.val, b.val, a.val)]]
                  ELSE [Dropped(a) EXCEPT !.val = colorID])))))

\* readLine, "Try to read move_id (optional)": val is moveID, a pointer
readMoveID(buf, r) ==
    IF HasSubblock(buf, r, 7)
    THEN Let(ReadID(buf, r, 7), LAMBDA id :
             IF id.err THEN [Dropped(id) EXCEPT !.val = <<>>]
             ELSE [id EXCEPT !.val = <<id.val>>])
    ELSE [r EXCEPT !.val = <<>>]

\* readLine up to the points: val holds toolID, colorID, thicknessScale,
\* startingLength and subblockLen
readLineHead(buf, r) ==
    Let(ReadInt(buf, r, 1), LAMBDA toolID :
    Let(ReadInt(buf, toolID, 2), LAMBDA colorID :
    Let(ReadDouble(buf, colorID, 3), LAMBDA thicknessScale :
    Let(ReadFloat(buf, thicknessScale, 4), LAMBDA startingLength :
    Let(ReadSubblock(buf, startingLength, 5), LAMBDA subblockLen :
        IF subblockLen.err THEN Failed(subblockLen)
        ELSE [subblockLen EXCEPT !.val =
                 [toolID |-> toolID.val, colorID |-> colorID.val,
                  thicknessScale |-> thicknessScale.val,
                  startingLength |-> startingLength.val,
                  subblockLen |-> subblockLen.val]])))))

\* readLine from the points to the timestamp: val is points
readLinePoints(buf, head, version) ==
    IF head.err THEN Failed(head)
    ELSE
    LET pointSize == IF version = 1 THEN PointSizeV1 ELSE PointSizeV2
        numPoints == head.val.subblockLen \div pointSize
        extraBytesInSubblock == head.val.subblockLen % pointSize
    IN  Let(PointsLoop(buf, head, version, numPoints, <<>>), LAMBDA points :
        Let(IF points.err \/ extraBytesInSubblock = 0 THEN points
            ELSE Dropped(ReadBytes(buf, points, extraBytesInSubblock)), LAMBDA extra :
        Let(ReadID(buf, extra, 6), LAMBDA timestamp :
            IF timestamp.err THEN Failed(timestamp)
            ELSE [timestamp EXCEPT !.val = points.val])))

\* readLine after the move id: the colour bytes and the Line that is returned,
\* with the positions at which the optional fields were looked for
readLineColor(buf, head, points, moveID, colorMap) ==
    IF points.err THEN Failed(points)
    ELSE Let(readColor(buf, moveID, head.val.colorID, colorMap), LAMBDA color :
        [color EXCEPT !.val =
            [Line |-> [Color |-> color.val, ColorOverride |-> <<>>,
                       Tool |-> head.val.toolID, Points |-> points.val,
                       ThicknessScale |-> head.val.thicknessScale,
                       StartingLength |-> head.val.startingLength,
                       MoveID |-> moveID.val],
             moveAt |-> points.off, colorAt |-> moveID.off]])

readLineTail(buf, head, points, colorMap) ==
    readLineColor(buf, head, points, readMoveID(buf, points), colorMap)

readLineBody(buf, head, version, colorMap) ==
    readLineTail(buf, head, readLinePoints(buf, head, version), colorMap)

\* readLine
readLine(buf, r, version, colorMap) ==
    readLineBody(buf, readLineHead(buf, r), version, colorMap)

\* readSceneLineItemBlock up to HasSubblock(6): val holds the ids and
\* deletedLength
readLineItemHead(buf) ==
    Let(ReadID(buf, Rd(0), 1), LAMBDA parentID :
    Let(ReadID(buf, parentID, 2), LAMBDA itemID :
    Let(ReadID(buf, itemID, 3), LAMBDA leftID :
    Let(ReadID(buf, leftID, 4), LAMBDA rightID :
    Let(ReadInt(buf, rightID, 5), LAMBDA deletedLength :
        IF deletedLength.err THEN Failed(deletedLength)
        ELSE [deletedLength EXCEPT !.val =
                 [parentID |-> parentID.val, itemID |-> itemID.val,
                  leftID |-> leftID.val, rightID |-> rightID.val,
                  deletedLength |-> deletedLength.val]])))))

\* readSceneLineItemBlock once the value has been read
readLineItemValue(item, ln) ==
    IF ln.err THEN [err |-> TRUE, off |-> ln.off]
    ELSE [err |-> FALSE, off |-> ln.off, hasValue |-> TRUE,
          parentID |-> item.val.parentID, itemID |-> item.val.itemID,
          leftID |-> item.val.leftID, rightID |-> item.val.rightID,
          deletedLength |-> item.val.deletedLength, Line |-> ln.val.Line,
          moveAt |-> ln.val.moveAt, colorAt |-> ln.val.colorAt]

readLineItemBody(buf, item, version, colorMap) ==
    IF item.err THEN [err |-> TRUE, off |-> item.off]
    ELSE IF ~HasSubblock(buf, item, 6)
    THEN [err |-> FALSE, off |-> item.off, hasValue |-> FALSE]
    ELSE readLineItemValue(item,
             readLine(buf, ReadUint8(buf, ReadSubblock(buf, item, 6)), version, colorMap))

\* readSceneLineItemBlock up to "if line == nil": the fields it has read
readSceneLineItemFields(buf, version, colorMap) ==
    readLineItemBody(buf, readLineItemHead(buf), version, colorMap)

\* rmPalette
rmPalette ==
    (0 :> <<0, 0, 0>>) @@ (1 :> <<144, 144, 144>>) @@ (2 :> <<255, 255, 255>>)
        @@ (3 :> <<251, 247, 25>>) @@ (4 :> <<0, 255, 0>>) @@ (5 :> <<255, 192, 203>>)
        @@ (6 :> <<78, 105, 201>>) @@ (7 :> <<179, 62, 57>>) @@ (8 :> <<125, 125, 125>>)
        @@ (9 :> <<255, 237, 117>>) @@ (10 :> <<161, 216, 125>>)
        @@ (11 :> <<139, 208, 229>>) @@ (12 :> <<183, 130, 205>>)
        @@ (13 :> <<247, 232, 81>>)

\* createPen: baseColor
baseColor(color, colorOverride) ==
    IF colorOverride # <<>>
    THEN <<colorOverride[1].R, colorOverride[1].G, colorOverride[1].B>>
    ELSE IF color \in DOMAIN rmPalette THEN rmPalette[color] ELSE <<0, 0, 0>>

(***************************************************************************)
(* Line payloads, written from the fields they encode                      *)
(***************************************************************************)
MaxLinePoints == 1    \* points of an encoded line

EncInt(index, v) == EncTag(index, TagTypeByte4) \o EncUint32(v)

\* the bytes of point number n under a version
EncPoint(version, n) ==
    [k \in 1..(IF version = 1 THEN PointSizeV1 ELSE PointSizeV2) |-> (n + k) % 256]

\* field 7 as a tagged id, as a sub-block holding the id, or absent
EncMove(src) ==
    IF src.move = "id" THEN EncID(7, src.moveID)
    ELSE IF src.move = "sub"
    THEN EncSubblock(7, <<src.moveID.Part1>> \o EncVarUint(src.moveID.Part2[2]))
    ELSE <<>>

EncLine(src) ==
    EncInt(1, src.toolID) \o EncInt(2, src.colorID)
        \o EncTag(3, TagTypeByte8) \o <<0, 0, 0, 0, 0, 0, 0, 64>>
        \o EncTag(4, TagTypeByte4) \o <<0, 0, 0, 0>>
        \o EncSubblock(5, Concat([n \in 1..src.numPoints |-> EncPoint(src.version, n)])
                              \o src.extra)
        \o EncID(6, CrdtID(1, 0, 30))
        \o EncMove(src)
        \o src.color

EncLineItem(src) ==
    EncID(1, RootID) \o EncID(2, CrdtID(1, 0, 22)) \o EncID(3, ZeroID) \o EncID(4, ZeroID)
        \o EncInt(5, 0)
        \o EncSubblock(6, <<3>> \o EncLine(src))

\* two prefix bytes and B, G, R, A; a palette colour, another colour, too few bytes
ColorBytes == {<<>>, <<0, 0, 117, 237, 255, 255>>, <<0, 0, 30, 20, 10, 255>>, <<0, 0, 30>>}

LineSources ==
    {[kind |-> "line", version |-> c[1], toolID |-> PenFineliner1, colorID |-> 6,
      numPoints |-> c[2], extra |-> c[3], move |-> c[4], moveID |-> CrdtID(1, 0, 40),
      color |-> c[5], colorMap |-> c[6]] :
        c \in {1, 2} \X (0..MaxLinePoints) \X {<<>>, <<0>>} \X {"none", "id", "sub"}
                  \X ColorBytes \X HardcodedColorMaps}

Encode(src) ==
    IF src.kind = "group" THEN EncGroupItem(src)
    ELSE IF src.kind = "line" THEN EncLineItem(src)
    ELSE EncRootText(src)

\* processBlock, case BlockTypeSceneLineItem
ReadSceneLineItemBytes ==
    /\ bpc = "start"
    /\ bsrc.kind = "line"
    /\ fields' = readSceneLineItemFields(payload, bsrc.version, bsrc.colorMap)
    /\ bpc' = "read"
    /\ UNCHANGED <<bsrc, payload>>
    /\ UNCHANGED <<rvars, svars, tvars, kvars, cvars, lvars>>

(***************************************************************************)
(* LimitedBufReader.Skip, in package parser and in package rmscene         *)
(***************************************************************************)
\* package parser: the largest readSize Skip hands to io.ReadFull, and the
\* size of the buffer it makes
SkipRequest(rem) == IF rem <= 0 THEN 0 ELSE Min(rem, chunkSize)
SkipAlloc(rem) == IF rem <= 0 THEN 0 ELSE chunkSize

\* package rmscene: one io.ReadFull into a buffer of remaining bytes;
\* remaining is set only when the read succeeds
SkipWhole(rem, avail) ==
    IF rem <= 0 THEN [remaining |-> rem, read |-> 0, err |-> FALSE]
    ELSE LET n == Min(rem, avail)
         IN  IF n < rem THEN [remaining |-> rem, read |-> n, err |-> TRUE]
             ELSE [remaining |-> 0, read |-> n, err |-> FALSE]

MaxSkipLen == 20000    \* largest remaining, and largest supply of the reader

SkipLens == {0, 1, chunkSize - 1, chunkSize, chunkSize + 1, 2 * chunkSize,
             2 * chunkSize + 1, MaxSkipLen}

\* remaining, and avail: the bytes the wrapped reader still has
LimitedReaders ==
    [package : {"parser", "rmscene"}, remaining : SkipLens, avail : SkipLens]

\* LimitedBufReader.Skip of package parser
SkipParser ==
    /\ xpc = "start"
    /\ limited.package = "parser"
    /\ LET s == Skip(limited.remaining, limited.avail)
       IN  skipped' = [remaining |-> s.remaining, read |-> s.read, err |-> s.err,
                       request |-> SkipRequest(limited.remaining),
                       alloc |-> SkipAlloc(limited.remaining)]
    /\ xpc' = "skipped"
    /\ UNCHANGED limited
    /\ UNCHANGED <<rvars, svars, tvars, kvars, cvars, bvars>>

\* LimitedBufReader.Skip of package rmscene
SkipRmscene ==
    /\ xpc = "start"
    /\ limited.package = "rmscene"
    /\ LET s == SkipWhole(limited.remaining, limited.avail)
       IN  skipped' = [remaining |-> s.remaining, read |-> s.read, err |-> s.err,
                       request |-> Max(limited.remaining, 0),
                       alloc |-> Max(limited.remaining, 0)]
    /\ xpc' = "skipped"
    /\ UNCHANGED limited
    /\ UNCHANGED <<rvars, svars, tvars, kvars, cvars, bvars>>

(***************************************************************************)
(* The specifications                                                      *)
(***************************************************************************)
\* the variables of a machine that a specification does not run
ReaderIdle ==
    /\ input = <<>>
    /\ pc = "idle"
    /\ pos = 0
    /\ currentBlock = <<>>
    /\ remaining = 0
    /\ buffered = 0
    /\ stats = <<>>
    /\ processed = <<>>
    /\ failed = {}
    /\ ended = <<>>
    /\ nReadBlock = 0
    /\ result = "none"

SceneIdle ==
    /\ scene = <<>>
    /\ cursor = 0
    /\ spc = "idle"
    /\ tree = <<>>
    /\ svg = <<>>

TextIdle ==
    /\ tblock = <<>>
    /\ text = <<>>
    /\ tpc = "idle"
    /\ anchorPos = <<>>
    /\ doc = <<>>
    /\ tsvg = <<>>

StrokeIdle ==
    /\ stroke = <<>>
    /\ lpc = "idle"
    /\ lsvg = <<>>

ContentIdle ==
    /\ inFiles = <<>>
    /\ contentFile = <<>>
    /\ cpc = "idle"
    /\ ordered = <<>>

LimitedIdle ==
    /\ limited = <<>>
    /\ xpc = "idle"
    /\ skipped = <<>>

BytesIdle ==
    /\ bsrc = <<>>
    /\ payload = <<>>
    /\ bpc = "idle"
    /\ fields = <<>>

Init ==
    /\ input \in Inputs
    /\ pc = "header"
    /\ pos = 0
    /\ currentBlock = Nil
    /\ remaining = 0
    /\ buffered = 0
    /\ stats = NoStats
    /\ processed = <<>>
    /\ failed = {}
    /\ ended = NoneEnded
    /\ nReadBlock = 0
    /\ result = "none"
    /\ SceneIdle
    /\ TextIdle
    /\ StrokeIdle
    /\ ContentIdle
    /\ BytesIdle
    /\ LimitedIdle

Next ==
    \/ ReadHeader
    \/ ReadBlock
    \/ \E n \in ReadLens : HandlerRead(n)
    \/ HandlerPeek
    \/ \E err \in BOOLEAN : HandlerReturn(err)
    \/ EndBlock

Spec == Init /\ [][Next]_vars

InitScene ==
    /\ scene \in Scenes
    /\ cursor = 0
    /\ spc = "parse"
    /\ tree = NewSceneTree
    /\ svg = NoSvg
    /\ ReaderIdle
    /\ TextIdle
    /\ StrokeIdle
    /\ ContentIdle
    /\ BytesIdle
    /\ LimitedIdle

NextScene ==
    \/ ReadAndProcessBlock
    \/ ReadBlockEOF
    \/ Export

SpecScene == InitScene /\ [][NextScene]_vars

InitText ==
    /\ tblock \in TextBlocks
    /\ text = <<>>
    /\ tpc = "block"
    /\ anchorPos = <<>>
    /\ doc = NoDoc
    /\ tsvg = <<>>
    /\ ReaderIdle
    /\ SceneIdle
    /\ StrokeIdle
    /\ ContentIdle
    /\ BytesIdle
    /\ LimitedIdle

NextText ==
    \/ ReadRootTextBlock
    \/ ExportBuildAnchorPos
    \/ DrawTextBuildDocument

SpecText == InitText /\ [][NextText]_vars


InitStroke ==
    /\ stroke \in Strokes
    /\ lpc = "start"
    /\ lsvg = <<>>
    /\ ReaderIdle
    /\ SceneIdle
    /\ TextIdle
    /\ ContentIdle
    /\ BytesIdle
    /\ LimitedIdle

NextStroke == DrawStroke

SpecStroke == InitStroke /\ [][NextStroke]_vars

InitContent ==
    /\ inFiles \in SeqsUpTo(FilePaths, MaxFiles)
    /\ contentFile \in Contents
    /\ cpc = "start"
    /\ ordered = <<>>
    /\ ReaderIdle
    /\ SceneIdle
    /\ TextIdle
    /\ StrokeIdle
    /\ BytesIdle
    /\ LimitedIdle

NextContent == OrderFiles

SpecContent == InitContent /\ [][NextContent]_vars

InitBytes ==
    /\ bsrc \in GroupItemSources \cup RootTextSources \cup LineSources
    /\ payload = Encode(bsrc)
    /\ bpc = "start"
    /\ fields = <<>>
    /\ ReaderIdle
    /\ SceneIdle
    /\ TextIdle
    /\ StrokeIdle
    /\ ContentIdle
    /\ LimitedIdle

NextBytes ==
    \/ ReadSceneGroupItemBytes
    \/ ReadSceneLineItemBytes
    \/ ReadRootTextBytes

SpecBytes == InitBytes /\ [][NextBytes]_vars

InitSkip ==
    /\ limited \in LimitedReaders
    /\ xpc = "start"
    /\ skipped = <<>>
    /\ ReaderIdle
    /\ SceneIdle
    /\ TextIdle
    /\ StrokeIdle
    /\ ContentIdle
    /\ BytesIdle

NextSkip ==
    \/ SkipParser
    \/ SkipRmscene

SpecSkip == InitSkip /\ [][NextSkip]_vars
(***************************************************************************)
(* Claims checked under Spec                                               *)
(***************************************************************************)
BadHeader == input.header.len < Len(HeaderV6) \/ HeaderBytes(input.header) # HeaderV6
LastBlockCut ==
    /\ input.blocks # <<>>
    /\ input.blocks[Len(input.blocks)].present < input.blocks[Len(input.blocks)].blockLength

\* C1: when processBlock fails on a block, the error is swallowed: EndBlock
\* resynchronises the reader, every later block of the file is processed and
\* ReadSceneTree returns a tree and no error (files that end in a partial
\* block header of 1..3 bytes, which is fatal by design, set aside).
C1_BlockErrorSwallowed ==
    (pc = "done" /\ failed # {} /\ input.tail \notin 1..3)
        => (result = "tree" /\ Len(processed) = Len(input.blocks))

\* C2: for every block whose payload is fully present, EndBlock leaves the
\* base reader exactly at blockStart + 8 + blockLength, whatever the handler
\* consumed, peeked or the per-block buffered reader read ahead.
C2_EndBlockAtBlockEnd ==
    ended.idx # 0 =>
        /\ ended.pos = BlockStart(input, ended.idx) + BlockHeaderLen
                          + input.blocks[ended.idx].blockLength
        /\ pc = "readBlock" => pos = ended.pos

\* C2 witness: a block ended after the handler consumed part of the payload,
\* peeked, and left bytes read ahead in the per-block buffer.
C2_Witness ==
    /\ ended.idx # 0
    /\ ended.peeked
    /\ ended.readAhead > 0
    /\ ended.consumed > 0
    /\ ended.consumed + ended.readAhead < input.blocks[ended.idx].blockLength

\* C4: a block whose declared blockLength exceeds the bytes left in the input
\* is a per-block error: ReadSceneTree ends at the end of the input and
\* returns the tree built from the preceding blocks, without a fatal error.
C4_CutBlockIsPerBlockError ==
    (pc = "done" /\ ~BadHeader /\ LastBlockCut) => result = "tree"

\* C5: ReadHeader consumes exactly 43 bytes (all there is when the file is
\* shorter); when fewer than 43 bytes are available or any byte differs from
\* the v6 header, ReadSceneTree returns an error and no tree and no block is
\* read or processed.
C5_HeaderChecked ==
    pc # "header" =>
        /\ BadHeader =>
              /\ pc = "done" /\ result = "error"
              /\ nReadBlock = 0 /\ processed = <<>> /\ currentBlock = Nil
              /\ pos = Min(Len(HeaderV6), input.header.len)
        /\ ~BadHeader =>
              /\ pos >= Len(HeaderV6)
              /\ nReadBlock = 0 => (pos = Len(HeaderV6) /\ pc = "readBlock")

\* C5 witness: a 43-byte header whose last byte alone is wrong, followed by a
\* whole block, has been rejected.
C5_Witness ==
    /\ pc = "done" /\ result = "error"
    /\ input.header.len = Len(HeaderV6)
    /\ HeaderBytes(input.header)[Len(HeaderV6)] # HeaderV6[Len(HeaderV6)]
    /\ input.blocks # <<>>


\* offset of the first byte after the payload of the active block
PayloadEnd == BlockStart(input, currentBlock.idx) + BlockHeaderLen + currentBlock.Size

\* C29: while a block is active, no read (typed read, peek, or read-ahead of
\* the per-block buffered reader) consumes input bytes that lie after the end
\* of the payload of that block: the base reader never passes
\* blockStart + 8 + blockLength, where the next block header begins.
C29_ReadsStayInBlock ==
    currentBlock # Nil =>
        /\ remaining >= 0
        /\ pos + remaining <= PayloadEnd
        /\ pos <= PayloadEnd

\* C29 witness: the handler peeked and the read-ahead of the per-block
\* buffer stopped exactly at the end of the payload, with bytes the handler
\* has not consumed in the buffer and another block header following.
C29_Witness ==
    /\ currentBlock # Nil /\ pc = "process"
    /\ currentBlock.idx < Len(input.blocks)
    /\ stats.peeked /\ stats.consumed > 0
    /\ buffered > 0
    /\ remaining = 0
    /\ pos = PayloadEnd
(***************************************************************************)
(* Claims checked under SpecText                                           *)
(***************************************************************************)
Tombstones == {n \in 1..Len(text.Items) : text.Items[n].DeletedLength > 0}
LiveItems  == {n \in 1..Len(text.Items) : text.Items[n].DeletedLength = 0}

RECURSIVE ConcatLive(_)
ConcatLive(items) ==
    IF items = <<>> THEN <<>>
    ELSE (IF Head(items).DeletedLength = 0 THEN Head(items).Value ELSE <<>>)
             \o ConcatLive(Tail(items))

\* S: the concatenated content of the items that are not tombstones
LiveText == ConcatLive(text.Items)

\* the ids of the characters a tombstone stands for
TombstoneIDs(item) ==
    {AddOffset(item.ItemID, k) : k \in 0..(Max(Len(item.Value), item.DeletedLength) - 1)}

\* the ids of the characters of the items that are not tombstones
LiveIDs == UNION {{AddOffset(text.Items[n].ItemID, k) : k \in 0..(Len(text.Items[n].Value) - 1)} :
                     n \in LiveItems}

\* C7: text items with deletedLength > 0 contribute no characters to the text
\* BuildTextDocument builds, and none of their character ids is a key of the
\* map of buildAnchorPos unless a non-deleted item produces the same id.
C7_TombstonesLeaveNoTrace ==
    tpc = "drawn" =>
        /\ TextDocumentString(doc) = LiveText
        /\ \A n \in Tombstones : \A id \in TombstoneIDs(text.Items[n]) :
              id \in DOMAIN anchorPos => id \in LiveIDs

\* C7 as amended: the same, except that the two special anchor ids
\* (0, 2^48 - 2) and (0, 2^48 - 1) are always keys of the anchor map.
C7_TombstonesLeaveNoTraceButSpecial ==
    tpc = "drawn" =>
        /\ TextDocumentString(doc) = LiveText
        /\ \A n \in Tombstones : \A id \in TombstoneIDs(text.Items[n]) :
              id \in DOMAIN anchorPos => id \in LiveIDs \cup SpecialAnchors

\* C7 witness: next to text that is kept, a tombstone that carries characters
\* (one of them a newline) and whose ids are neither keys nor special
C7_Witness ==
    /\ tpc = "drawn"
    /\ doc.Paragraphs # <<>>
    /\ \E n \in Tombstones :
          /\ \E k \in 1..Len(text.Items[n].Value) : text.Items[n].Value[k] = NL
          /\ TombstoneIDs(text.Items[n]) \cap (DOMAIN anchorPos) = {}

CountNL(s) == Cardinality({n \in 1..Len(s) : s[n] = NL})

\* C9: when the concatenated non-tombstone content S is not empty,
\* BuildTextDocument returns (number of newlines in S) + 1 paragraphs, in
\* order, whose texts joined with newlines are S; empty paragraphs are kept.
C9_ParagraphsSplitS ==
    (tpc = "drawn" /\ LiveText # <<>>) =>
        /\ Len(doc.Paragraphs) = CountNL(LiveText) + 1
        /\ TextDocumentString(doc) = LiveText

\* C9 witness: S ends with two newlines, so the last two paragraphs are empty
C9_Witness ==
    /\ tpc = "drawn"
    /\ Len(LiveText) >= 3
    /\ LiveText[Len(LiveText)] = NL /\ LiveText[Len(LiveText) - 1] = NL
    /\ Len(doc.Paragraphs) >= 3
    /\ doc.Paragraphs[Len(doc.Paragraphs)].Text = <<>>
    /\ doc.Paragraphs[Len(doc.Paragraphs) - 1].Text = <<>>

RECURSIVE CharIDs(_, _, _)
\* the characters chars[k..] of an item with their ids: the k-th character
\* (code point) of an item has id (part1, part2 + k - 1)
CharIDs(item, chars, k) ==
    IF k > Len(chars) THEN <<>>
    ELSE <<[id |-> AddOffset(item.ItemID, k - 1), ch |-> chars[k].ch]>>
             \o CharIDs(item, chars, k + 1)

RECURSIVE LiveChars(_)
LiveChars(items) ==
    IF items = <<>> THEN <<>>
    ELSE (IF Head(items).DeletedLength = 0
          THEN CharIDs(Head(items), RangeStr(Head(items).Value, 0), 1) ELSE <<>>)
             \o LiveChars(Tail(items))

Newlines == SelectSeq(LiveChars(text.Items), LAMBDA c : c.ch = NL)

FirstLiveItem == text.Items[CHOOSE n \in LiveItems : \A m \in LiveItems : n <= m]

\* the owner of paragraph number i (counted from 0)
Owner(i) == IF i = 0 THEN FirstLiveItem.ItemID ELSE Newlines[i].id

\* C10: the style of paragraph i is styles[owner] when that key exists and
\* Plain otherwise; owner is the id of the first item for i = 0 and, for
\* i > 0, the id of the newline that ended paragraph i-1, which is
\* (item.part1, item.part2 + k), k the number of characters (code points)
\* before that newline inside its item.
C10_StyleOfOwner ==
    tpc = "drawn" =>
        \A n \in 1..Len(doc.Paragraphs) :
            doc.Paragraphs[n].Style =
                IF Owner(n - 1) \in DOMAIN text.Styles
                THEN text.Styles[Owner(n - 1)].Value ELSE StylePlain


\* a < b for timestamps: by part1, then by part2
TimestampLess(a, b) ==
    \/ a.Part1 < b.Part1
    \/ /\ a.Part1 = b.Part1
       /\ \/ a.Part2[1] < b.Part2[1]
          \/ a.Part2[1] = b.Part2[1] /\ a.Part2[2] < b.Part2[2]

\* the entries of the formatting array for character id
EntriesFor(id) == {i \in 1..Len(tblock.formats) : tblock.formats[i].charID = id}

\* the entry for id that no other entry for id is newer than
Newest(id) ==
    CHOOSE i \in EntriesFor(id) :
        \A j \in EntriesFor(id) :
            ~TimestampLess(tblock.formats[i].timestamp, tblock.formats[j].timestamp)

OneByteChars(s) == \A n \in 1..Len(s) : s[n] < 128

\* C11: when the formatting array of a RootText block has two entries for
\* one character id, the style stored in Text.Styles, and used for the
\* paragraph that id owns, is the one of the entry with the higher timestamp
\* (by part1, then part2), whatever the order of the entries in the file.
C11_NewestStyleWins ==
    /\ tpc \in {"start", "anchors", "drawn"} =>
          \A i \in 1..Len(tblock.formats) :
              LET id == tblock.formats[i].charID
              IN  /\ id \in DOMAIN text.Styles
                  /\ text.Styles[id].Value = tblock.formats[Newest(id)].style
    /\ (tpc = "drawn" /\ OneByteChars(LiveText)) =>
          \A n \in 1..Len(doc.Paragraphs) :
              EntriesFor(Owner(n - 1)) # {} =>
                  doc.Paragraphs[n].Style = tblock.formats[Newest(Owner(n - 1))].style

\* the line height the table gives a paragraph style, 70 for the others
TableLineHeight(style) ==
    CASE style \in {1, 3} -> 70
      [] style \in {4, 5, 6, 7} -> 35
      [] style = 2 -> 150
      [] OTHER -> 70

RECURSIVE SumHeights(_, _)
\* the sum of the line heights of the first n paragraphs
SumHeights(paragraphs, n) ==
    IF n = 0 THEN 0
    ELSE SumHeights(paragraphs, n - 1) + TableLineHeight(paragraphs[n].Style)

TextElements == SelectSeq(tsvg, LAMBDA e : e.t = "text")

NonEmptyParagraphs == {n \in 1..Len(doc.Paragraphs) : doc.Paragraphs[n].Text # <<>>}

\* the number among the non-empty paragraphs of paragraph n
Rank(n) == Cardinality({m \in NonEmptyParagraphs : m <= n})

\* C12: drawText emits one <text> element per non-empty paragraph, in order,
\* and the element of paragraph k is at x = posX and y = posY + TEXT_TOP_Y +
\* the sum of the line heights of paragraphs 0..k: an empty paragraph emits
\* nothing and still advances y; a style without a table entry counts 70.
C12_OneTextPerParagraph ==
    tpc = "drawn" =>
        /\ Len(TextElements) = Cardinality(NonEmptyParagraphs)
        /\ \A n \in NonEmptyParagraphs :
              LET e == TextElements[Rank(n)]
              IN  /\ e.text = doc.Paragraphs[n].Text
                  /\ e.x = text.PosX
                  /\ e.y = text.PosY + TextTopY + SumHeights(doc.Paragraphs, n)

\* C12 witness: an empty paragraph before a non-empty one, which has a style
\* the table does not hold
C12_Witness ==
    /\ tpc = "drawn"
    /\ \E n \in NonEmptyParagraphs :
          /\ \E m \in 1..(n - 1) : doc.Paragraphs[m].Text = <<>>
          /\ doc.Paragraphs[n].Style \notin DOMAIN lineHeights
    /\ Len(TextElements) >= 1
(***************************************************************************)
(* Claims checked under SpecScene                                          *)
(***************************************************************************)
\* the file without block number i
Removed(f, i) ==
    [blocks |-> SubSeq(f.blocks, 1, i - 1) \o SubSeq(f.blocks, i + 1, Len(f.blocks)),
     cut |-> f.cut /\ i # Len(f.blocks)]

\* what ReadSceneTree has returned
Returned == IF spc = "failed" THEN [ok |-> FALSE, tree |-> NewSceneTree]
            ELSE [ok |-> TRUE, tree |-> tree]

\* C3: for every block whose type is not 0x01, 0x02, 0x04, 0x05 or 0x07, what
\* ReadSceneTree returns is what it returns for the same file with that block
\* removed: the same tree, and no error because of that block.
C3_SkippedBlockIsAbsent ==
    spc \in {"parsed", "failed"} =>
        \A i \in 1..Len(scene.blocks) :
            scene.blocks[i].blockType \notin KnownBlockTypes
                => Returned = ReadSceneTreeOf(Removed(scene, i))

HasOverflow(out) == \E k \in 1..Len(out) : out[k].t = "stack overflow"

RECURSIVE TopLevel(_, _, _)
\* the elements directly inside the outermost <g> of out, in the order they
\* are written: a group by its id, a stroke by its first point
TopLevel(out, k, depth) ==
    IF k > Len(out) THEN <<>>
    ELSE CASE out[k].t = "g" ->
                (IF depth = 1 THEN <<[kind |-> "group", id |-> out[k].id]>> ELSE <<>>)
                    \o TopLevel(out, k + 1, depth + 1)
           [] out[k].t = "/g" -> TopLevel(out, k + 1, depth - 1)
           [] out[k].t = "polyline" ->
                (IF depth = 1 /\ out[k - 1].t # "segment end"
                 THEN <<[kind |-> "line", first |-> out[k].first]>> ELSE <<>>)
                    \o TopLevel(out, k + 1, depth)
           [] OTHER -> TopLevel(out, k + 1, depth)

ChildKeys(children) ==
    [k \in 1..Len(children) |->
        IF children[k].Value.kind = "group"
        THEN [kind |-> "group", id |-> children[k].Value.id]
        ELSE [kind |-> "line", first |-> children[k].Value.line.Points[1]]]

\* a step of the parser leaves the children of a group as they are or adds
\* one item after them
ChildrenAppended ==
    /\ \A id \in DOMAIN tree.Nodes :
          /\ id \in DOMAIN tree'.Nodes
          /\ LET old == tree.Nodes[id].Children
                 new == tree'.Nodes[id].Children
             IN  \/ new = old
                 \/ Len(new) = Len(old) + 1 /\ SubSeq(new, 1, Len(old)) = old
    /\ \A id \in (DOMAIN tree'.Nodes) \ (DOMAIN tree.Nodes) :
          Len(tree'.Nodes[id].Children) <= 1

\* drawGroup writes the children of every group in the order of Children
DrawnInChildrenOrder ==
    (spc = "exported" /\ ~svg.crashed) =>
        \A id \in DOMAIN tree.Nodes :
            LET out == drawGroup(tree.Nodes, id, buildAnchorPos(tree.RootText), MaxDepth)
            IN  ~HasOverflow(out) => TopLevel(out, 1, 0) = ChildKeys(tree.Nodes[id].Children)

\* C6: the children of every group are in the order in which the blocks that
\* added them appear in the file (each block read adds its item after the
\* items already there), and drawGroup emits them in that order; leftId,
\* rightId and itemId never change the order.
C6_ChildrenInFileOrder == [][ChildrenAppended]_vars /\ []DrawnInChildrenOrder

\* C6 witness: an exported group whose second child names the first as its
\* right neighbour and whose first child has the larger item id of the two
\* lines: the order of the CRDT would be the reverse of the order of the file
C6_Witness ==
    /\ spc = "exported" /\ ~svg.crashed
    /\ LET c == tree.Nodes[RootID].Children
       IN  /\ Len(c) >= 2
           /\ c[2].RightID = c[1].ItemID
           /\ c[1].LeftID = c[2].ItemID
           /\ c[1].Value.kind = "line" /\ c[2].Value.kind = "line"
           /\ TopLevel(svg.body, 1, 0)[1].first = c[1].Value.line.Points[1]

\* the tree without the items whose deletedLength > 0
Live(st) ==
    [st EXCEPT !.Nodes = [id \in DOMAIN st.Nodes |->
        [st.Nodes[id] EXCEPT !.Children =
            SelectSeq(@, LAMBDA item : item.DeletedLength = 0)]]]

\* C8: a child item of a group (line or sub-group) with deletedLength > 0
\* contributes nothing to the output: drawGroup emits no polyline and no <g>
\* for it and its points do not enlarge the bounding box.
C8_DeletedChildrenInvisible ==
    (spc = "exported" /\ ~svg.crashed) => svg = ExportToSVG(Live(tree))


\* the <g> elements drawGroup wrote
GroupElements == {k \in 1..Len(svg.body) : svg.body[k].t = "g" /\ "id" \in DOMAIN svg.body[k]}

\* the ids of the newlines of the root text, in order: number k + 1 ends paragraph k
NewlinesOf(t) == SelectSeq(LiveChars(t.Items), LAMBDA c : c.ch = NL)

\* C13: a group whose anchorId is the id of the newline that ends paragraph k
\* of the root text is translated by x = anchorOriginX and y = posY +
\* TEXT_TOP_Y + the sum of the line heights, by paragraph style, of
\* paragraphs 0..k.
C13_AnchorBelowParagraph ==
    (spc = "exported" /\ ~svg.crashed /\ tree.RootText # <<>>) =>
        LET t  == tree.RootText[1]
            nl == NewlinesOf(t)
            ps == BuildTextDocument(tree.RootText).Paragraphs
        IN  \A e \in GroupElements : \A k \in 1..Len(nl) :
                LET group == tree.Nodes[svg.body[e].id]
                IN  (/\ group.AnchorID # <<>>
                     /\ group.AnchorOriginX # <<>>
                     /\ group.AnchorID[1].Value = nl[k].id)
                    => /\ svg.body[e].x = group.AnchorOriginX[1].Value
                       /\ svg.body[e].y = t.PosY + TextTopY + SumHeights(ps, k)

RECURSIVE NoStroke(_)
NoStroke(children) ==
    children = <<>> \/ (Head(children).Value.kind # "line" /\ NoStroke(Tail(children)))

PageBox == [overflow |-> FALSE, xMin |-> -702, xMax |-> 702, yMin |-> 0, yMax |-> 1872]

\* C14: for a scene tree with no stroke and no text, whatever its groups,
\* getBoundingBox of the root returns (-W/2, W/2, 0, H), W = 1404, H = 1872.
C14_EmptySceneIsThePage ==
    (/\ spc = "exported" /\ ~svg.crashed
     /\ tree.RootText = <<>>
     /\ \A id \in DOMAIN tree.Nodes : NoStroke(tree.Nodes[id].Children))
        => svg.box = PageBox

\* C18: after a TreeNode block that carries the anchor sub-blocks is
\* processed without error, the group of its nodeId has label, visible and
\* the four anchor fields of the block, whether the group was there before
\* the block or is created by it.
C18_TreeNodeSetsAnchor ==
    (spc \in {"parse", "parsed"} /\ cursor >= 1) =>
        LET b == scene.blocks[cursor]
        IN  (b.blockType = BlockTypeTreeNode /\ b.hasAnchor /\ b.failAt = 0) =>
                /\ b.nodeID \in DOMAIN tree.Nodes
                /\ LET g == tree.Nodes[b.nodeID]
                   IN  /\ g.Label = b.label /\ g.Visible = b.visible
                       /\ g.AnchorID = <<b.anchorID>>
                       /\ g.AnchorType = <<b.anchorType>>
                       /\ g.AnchorThreshold = <<b.anchorThreshold>>
                       /\ g.AnchorOriginX = <<b.anchorOriginX>>

\* the groups that are children of the group id
ChildGroups(nodes, id) ==
    {nodes[id].Children[k].Value.id :
        k \in {j \in 1..Len(nodes[id].Children) : nodes[id].Children[j].Value.kind = "group"}}

RECURSIVE DescendantsFrom(_, _, _)
\* the groups reached from the set found in at most n more steps of the child relation
DescendantsFrom(nodes, found, n) ==
    LET more == found \cup UNION {ChildGroups(nodes, id) : id \in found}
    IN  IF n = 0 \/ more = found THEN found ELSE DescendantsFrom(nodes, more, n - 1)

Descendants(nodes, id) ==
    DescendantsFrom(nodes, ChildGroups(nodes, id), Cardinality(DOMAIN nodes))

\* C25: for every sequence of SceneTree and SceneGroupItem blocks the child
\* relation of the scene tree is acyclic (no group is its own child or
\* descendant, for example when treeId = parentId), so getBoundingBox and
\* drawGroup terminate on every tree ReadSceneTree returns.
C25_SceneTreeAcyclic ==
    /\ \A id \in DOMAIN tree.Nodes : id \notin Descendants(tree.Nodes, id)
    /\ spc = "exported" => ~svg.crashed

\* the times the group id occurs among the children of the group parent
Occurrences(nodes, parent, id) ==
    Cardinality({k \in 1..Len(nodes[parent].Children) :
                    nodes[parent].Children[k].Value = GroupValue(id)})

\* the <g> elements written for the group id
Emitted(id) == Cardinality({e \in GroupElements : svg.body[e].id = id})

\* block number i of the file declares the group id under parent (SceneTree)
DeclaredBy(i, parent, id) ==
    /\ scene.blocks[i].blockType = BlockTypeSceneTree
    /\ scene.blocks[i].treeID = id /\ scene.blocks[i].parentID = parent

\* block number i of the file places the group id under parent (SceneGroupItem)
PlacedBy(i, parent, id) ==
    /\ scene.blocks[i].blockType = BlockTypeSceneGroupItem
    /\ scene.blocks[i].hasValue
    /\ scene.blocks[i].nodeID = id /\ scene.blocks[i].parentID = parent

\* C26: a group declared by a SceneTree block (treeId, parentId) and also
\* placed by a SceneGroupItem block under the same parent occurs exactly once
\* among the children of that parent, so its strokes are emitted once.
C26_GroupPlacedOnce ==
    (spc \in {"parsed", "exported"}) =>
        \A parent \in DOMAIN tree.Nodes : \A id \in DOMAIN tree.Nodes :
            (\E i, j \in 1..Len(scene.blocks) :
                DeclaredBy(i, parent, id) /\ PlacedBy(j, parent, id))
            => /\ Occurrences(tree.Nodes, parent, id) = 1
               /\ (spc = "exported" /\ ~svg.crashed /\ parent = RootID) => Emitted(id) = 1

\* C27: for every block type, if processing the block returns an error, the
\* scene tree (nodes index, children, labels, visibility, anchor fields, root
\* text) is equal to its value before that block.
C27_FailedBlockLeavesTree ==
    [][(/\ spc = "parse"
        /\ cursor' = cursor + 1
        /\ processBlock(tree, scene.blocks[cursor + 1]).err) => tree' = tree]_vars

(***************************************************************************)
(* Claims checked under SpecStroke                                         *)
(***************************************************************************)
Polylines == SelectSeq(lsvg, LAMBDA e : e.t = "polyline")

\* ceil(a / b) for a >= 0, b > 0
CeilDiv(a, b) == (a + b - 1) \div b

\* C15: the number of <polyline> elements drawStroke emits for a line is
\* ceil(len(points) / segLen), segLen the segment length of the line's pen.
C15_PolylinesPerStroke ==
    lpc = "drawn" =>
        Len(Polylines) = CeilDiv(Len(stroke.Points), SegmentLength(stroke.Tool))

\* C15 witness: a stroke of more points than two segments of its pen hold,
\* the last segment not full
C15_Witness ==
    /\ lpc = "drawn"
    /\ Len(stroke.Points) > 2 * SegmentLength(stroke.Tool)
    /\ Len(stroke.Points) % SegmentLength(stroke.Tool) # 0
    /\ Len(Polylines) = 3

\* C16: for every pen and every point, the opacity getSegmentOpacity returns,
\* which drawStroke writes in the style of the polyline, is in [0, 1].
C16_OpacityInRange ==
    lpc = "drawn" =>
        /\ \A k \in 1..Len(Polylines) :
              Polylines[k].opacity >= 0 /\ Polylines[k].opacity <= OpacityUnit
        /\ \A k \in 1..Len(stroke.Points) :
              LET o == getSegmentOpacity(stroke.Tool, stroke.Points[k])
              IN  o >= 0 /\ o <= OpacityUnit

\* the places of lsvg at which a polyline opens, and the number of the
\* segment that opens at place j
PolylineAt == {j \in 1..Len(lsvg) : lsvg[j].t = "polyline"}
SegmentNo(j) == Cardinality({h \in PolylineAt : h <= j})

\* C23: for every segment after the first, the previous polyline is closed
\* right before the new one opens, and the first coordinate pair of the new
\* polyline is the last point of the previous segment, whatever the
\* coordinates of the points are.
C23_SegmentsJoined ==
    lpc = "drawn" =>
        \A j \in PolylineAt : j > 1 =>
            LET prev == stroke.Points[(SegmentNo(j) - 1) * SegmentLength(stroke.Tool)]
            IN  /\ lsvg[j - 1].t = "segment end"
                /\ lsvg[j + 1] = [t |-> "pt", x |-> prev.X, y |-> prev.Y]

RECURSIVE WellFormedFrom(_, _, _)
\* the text from place j on is well formed, open telling whether a polyline
\* is open at place j: a polyline opens only when none is open, points and
\* closings are written only inside an open polyline, and none is left open
WellFormedFrom(out, j, open) ==
    IF j > Len(out) THEN ~open
    ELSE IF out[j].t = "polyline" THEN ~open /\ WellFormedFrom(out, j + 1, TRUE)
    ELSE IF out[j].t = "pt" THEN open /\ WellFormedFrom(out, j + 1, TRUE)
    ELSE open /\ WellFormedFrom(out, j + 1, FALSE)

\* C28: for every line, a line of zero points included, every <polyline
\* drawStroke opens is closed exactly once and no closing "/> or point is
\* written without an opening tag before it.
C28_StrokeWellFormed ==
    lpc = "drawn" => WellFormedFrom(lsvg, 1, FALSE)

(***************************************************************************)
(* Claims checked under SpecContent                                        *)
(***************************************************************************)
\* the input file's base name without extension is a page id
MatchesPage(file) ==
    \E k \in 1..Len(contentFile.pages) : contentFile.pages[k] = BaseName(file)

\* the first place of the file's page in cPages.pages
PagePlace(file) ==
    CHOOSE k \in 1..Len(contentFile.pages) :
        /\ contentFile.pages[k] = BaseName(file)
        /\ \A j \in 1..(k - 1) : contentFile.pages[j] # BaseName(file)

ContentNotUsable ==
    \/ ~contentFile.ok
    \/ contentFile.pages = <<>>
    \/ \A n \in 1..Len(inFiles) : ~MatchesPage(inFiles[n])

\* C17: when OrderFilesByContent uses the content file it returns true and
\* lists first the input files whose base name (without extension) is a page
\* id, in the order of cPages.pages, and after them all the other input
\* files; when the content file is unreadable, has no pages or matches no
\* input file, it returns the input list as it is, and false.
C17_MatchedThenUnmatched ==
    cpc = "ordered" =>
        IF ContentNotUsable
        THEN ordered = [files |-> inFiles, used |-> FALSE]
        ELSE /\ ordered.used
             /\ Elements(ordered.files) = Elements(inFiles)
             /\ \E k \in 0..Len(ordered.files) :
                   /\ \A n \in 1..k : MatchesPage(ordered.files[n])
                   /\ \A n \in (k + 1)..Len(ordered.files) : ~MatchesPage(ordered.files[n])
                   /\ \A a, b \in 1..k :
                         a < b => PagePlace(ordered.files[a]) <= PagePlace(ordered.files[b])

\* the times the file occurs in the list
Count(list, file) == Cardinality({n \in 1..Len(list) : list[n] = file})

\* C30: whenever OrderFilesByContent returns true, its result is a
\* permutation of the input file list: every input file occurs exactly once,
\* for every content file, including one that lists a page id more than once.
C30_ResultIsPermutation ==
    (cpc = "ordered" /\ ordered.used) =>
        /\ Len(ordered.files) = Len(inFiles)
        /\ \A f \in Elements(inFiles) \cup Elements(ordered.files) :
              Count(ordered.files, f) = Count(inFiles, f)

(***************************************************************************)
(* Claims checked under SpecBytes                                          *)
(***************************************************************************)
RECURSIVE VarUintAt(_, _, _)
\* the varuint that starts after off bytes of buf, -1 when buf ends inside it
VarUintAt(buf, off, mul) ==
    IF off >= Len(buf) THEN -1
    ELSE IF buf[off + 1] < 128 THEN buf[off + 1] * mul
    ELSE LET rest == VarUintAt(buf, off + 1, mul * 128)
         IN  IF rest < 0 THEN -1 ELSE (buf[off + 1] - 128) * mul + rest

\* the next unread bytes are the tag of a sub-block of the given index
TagAhead(buf, off, index) ==
    VarUintAt(buf, off, 1) = index * 16 + TagTypeLength4

\* C19: HasSubblock(i) returns true exactly when the next unread bytes of the
\* payload are a varuint tag of index i and type Length4, whatever the
\* number of bytes left in the payload (also fewer than 10), and false when
\* the payload is exhausted; it consumes nothing.
C19_HasSubblockSeesTag ==
    bpc = "read" =>
        \A off \in 0..Len(payload) : \A index \in {0, 1, 2, 6} :
            HasSubblock(payload, Rd(off), index) = TagAhead(payload, off, index)

StripExtra(src) ==
    [src EXCEPT !.items = [n \in 1..Len(src.items) |-> [src.items[n] EXCEPT !.extra = <<>>]]]

Content(f) == IF f.err THEN [err |-> TRUE] ELSE [f EXCEPT !.off = 0]

\* C20: the fields that follow a sub-block are decoded from the byte right
\* after the sub-block's declared length: bytes the reader does not know at
\* the end of a sub-block, within its declared length, do not change what
\* is decoded from the rest of the block.
C20_SubblockLengthBoundsFields ==
    (bpc = "read" /\ bsrc.kind = "text") =>
        Content(fields) = Content(readRootTextFields(Encode(StripExtra(bsrc))))

(***************************************************************************)
(* Claims about the line body                                              *)
(***************************************************************************)
\* a line item whose value has been read without an error
LineRead == bpc = "read" /\ bsrc.kind = "line" /\ ~fields.err /\ fields.hasValue

\* C21: when readLine detects field 7 (HasSubblock(7) answers true after the
\* timestamp), the Line's moveId is the id the field carries and the bytes
\* consumed before the colour bytes are looked at are exactly the field's.
C21_MoveIdReadWhenDetected ==
    (LineRead /\ HasSubblock(payload, Rd(fields.moveAt), 7))
        => /\ fields.Line.MoveID = <<bsrc.moveID>>
           /\ fields.colorAt = fields.moveAt + Len(EncMove(bsrc))

\* C22: when at least 6 bytes of the payload are left after the timestamp and
\* the move id, the Line carries colorOverride = (R, G, B, A) taken from the
\* bytes prefix, prefix, B, G, R, A, and createPen's base colour is that RGB.
C22_ColorOverrideKept ==
    (LineRead /\ Len(payload) - fields.colorAt >= 6)
        => LET c == SubSeq(payload, fields.colorAt + 1, fields.colorAt + 6)
           IN  /\ fields.Line.ColorOverride = <<RGBA(c[5], c[4], c[3], c[6])>>
               /\ baseColor(fields.Line.Color, fields.Line.ColorOverride)
                      = <<c[5], c[4], c[3]>>

(***************************************************************************)
(* Claims checked under SpecSkip                                           *)
(***************************************************************************)
\* C24: on success Skip has advanced the wrapped reader by the previous
\* Remaining() and Remaining() is 0; no single read asks for, and no buffer
\* holds, more than 8192 bytes; when the wrapped reader ends early Skip
\* returns an error and Remaining() has gone down by the bytes consumed.
C24_SkipBoundedAndExact ==
    xpc = "skipped" =>
        /\ skipped.request <= 8192
        /\ skipped.alloc <= 8192
        /\ ~skipped.err => (skipped.read = limited.remaining /\ skipped.remaining = 0)
        /\ limited.avail < limited.remaining => skipped.err
        /\ skipped.err => skipped.remaining = limited.remaining - skipped.read
=============================================================================
